---- MODULE Spec2Model ----
(***************************************************************************)
(* FinSimAgent: the deterministic financial simulation engine              *)
(* (simulation-engine.ts), the server action that wraps it (actions.ts)    *)
(* and the commentary collaborator it awaits.                              *)
(*                                                                         *)
(* Numbers.  The engine computes in IEEE doubles and rounds every line     *)
(* item with Math.round.  The model computes the same expressions as exact *)
(* rationals (a signed numerator over a positive denominator) and rounds   *)
(* them the way Math.round / toFixed round a real number.  The two agree   *)
(* whenever the exact value is not a tie (k + 1/2) that the double         *)
(* computation misses by its last bits; the Parameter Vectors drawn below  *)
(* avoid those ties.  Parameters with decimals are held as integers in     *)
(* their slider unit: tenths (salaryInflation, inflationRate, interestRate,*)
(* unemploymentRate, gdpGrowth, creditSpread, forexRate) or hundredths     *)
(* (inventoryTurnover, bondYieldSpread).  Percent ratios are held in       *)
(* tenths of a percent, the x-ratios in hundredths.                        *)
(***************************************************************************)
EXTENDS Integers, Sequences, FiniteSets, TLC

(***************************************************************************)
(* Arithmetic on integers of any size (TLC's integers are 32 bits wide,    *)
(* the engine's intermediate products are not).  A magnitude is a          *)
(* little-endian sequence of limbs in base 10^4 without leading zeros;     *)
(* a signed number is [neg, mag].                                          *)
(***************************************************************************)
Limb == 100 * 100

Abs(n) == IF n < 0 THEN -n ELSE n

Max(a, b) == IF a >= b THEN a ELSE b

Min(a, b) == IF a <= b THEN a ELSE b

RECURSIVE MNorm(_)
MNorm(a) ==
  IF a = <<>> THEN <<>>
  ELSE IF a[Len(a)] = 0 THEN MNorm(SubSeq(a, 1, Len(a) - 1))
  ELSE a

RECURSIVE MOfNat(_)
MOfNat(n) == IF n = 0 THEN <<>> ELSE <<n % Limb>> \o MOfNat(n \div Limb)

RECURSIVE MToNat(_)
MToNat(a) == IF a = <<>> THEN 0 ELSE Head(a) + Limb * MToNat(Tail(a))

MHead(a) == IF a = <<>> THEN 0 ELSE Head(a)

MTail(a) == IF a = <<>> THEN <<>> ELSE Tail(a)

RECURSIVE MAddC(_, _, _)
MAddC(a, b, c) ==
  IF a = <<>> /\ b = <<>> THEN (IF c = 0 THEN <<>> ELSE <<c>>)
  ELSE LET x == MHead(a) + MHead(b) + c
       IN  <<x % Limb>> \o MAddC(MTail(a), MTail(b), x \div Limb)

MAdd(a, b) == MAddC(a, b, 0)

\* a - b - c for a >= b + c (c is the borrow)
RECURSIVE MSubC(_, _, _)
MSubC(a, b, c) ==
  IF a = <<>> THEN <<>>
  ELSE LET x == MHead(a) - MHead(b) - c
       IN  IF x < 0 THEN <<x + Limb>> \o MSubC(MTail(a), MTail(b), 1)
           ELSE <<x>> \o MSubC(MTail(a), MTail(b), 0)

MSub(a, b) == MNorm(MSubC(a, b, 0))

\* -1, 0, 1 as a < b, a = b, a > b
RECURSIVE MCmpFrom(_, _, _)
MCmpFrom(a, b, i) ==
  IF i = 0 THEN 0
  ELSE IF a[i] < b[i] THEN -1
  ELSE IF a[i] > b[i] THEN 1
  ELSE MCmpFrom(a, b, i - 1)

MCmp(a, b) ==
  IF Len(a) < Len(b) THEN -1
  ELSE IF Len(a) > Len(b) THEN 1
  ELSE MCmpFrom(a, b, Len(a))

\* a * k + c for one limb k
RECURSIVE MMulLimb(_, _, _)
MMulLimb(a, k, c) ==
  IF a = <<>> THEN MOfNat(c)
  ELSE LET x == Head(a) * k + c
       IN  <<x % Limb>> \o MMulLimb(Tail(a), k, x \div Limb)

\* a * b, one limb of b at a time (b the shorter factor keeps it shallow)
RECURSIVE MMulBy(_, _)
MMulBy(a, b) ==
  IF b = <<>> THEN <<>>
  ELSE MNorm(MAdd(MMulLimb(a, Head(b), 0), <<0>> \o MMulBy(a, Tail(b))))

MMul(a, b) ==
  IF a = <<>> \/ b = <<>> THEN <<>>
  ELSE IF Len(a) < Len(b) THEN MMulBy(b, a) ELSE MMulBy(a, b)

\* <<q, m>> with r * Limb = q * d + m and 0 <= m < d, for 0 <= r < d and
\* 10 * d < 2^31, a decimal digit at a time (no product leaves 32 bits)
MulDivMod(r, d) ==
  IF r = 0 THEN <<0, 0>>
  ELSE LET a1 == r * 10
           a2 == (a1 % d) * 10
           a3 == (a2 % d) * 10
           a4 == (a3 % d) * 10
       IN  <<(a1 \div d) * 1000 + (a2 \div d) * 100 + (a3 \div d) * 10 + (a4 \div d),
             a4 % d>>

\* one step of the long division: the limb lo under the result hi of the
\* limbs above it
DivStep(hi, lo, d) ==
  IF hi[1] = <<>> /\ hi[2] = 0 THEN << MNorm(<<lo \div d>>), lo % d >>
  ELSE LET s == MulDivMod(hi[2], d)
           x == s[2] + lo
       IN  << MNorm(<<s[1] + (x \div d)>> \o hi[1]), x % d >>

\* <<quotient, remainder>> of the magnitude a by the integer d, 0 < 10 * d < 2^31,
\* from the most significant limb down
RECURSIVE MDivInt(_, _)
MDivInt(a, d) ==
  IF a = <<>> THEN << <<>>, 0 >> ELSE DivStep(MDivInt(Tail(a), d), Head(a), d)

\* floor(a / (d1 * d2 * ...)) for a sequence of divisors
RECURSIVE MDivAll(_, _)
MDivAll(a, ds) ==
  IF ds = <<>> THEN a
  ELSE MDivInt(MDivAll(a, SubSeq(ds, 1, Len(ds) - 1)), ds[Len(ds)])[1]

RECURSIVE MProd(_)
MProd(ns) == IF ns = <<>> THEN <<1>> ELSE MMul(MOfNat(Head(ns)), MProd(Tail(ns)))

Big(n) == [neg |-> n < 0, mag |-> MOfNat(Abs(n))]

BNeg(x) == [neg |-> (x.mag # <<>>) /\ ~x.neg, mag |-> x.mag]

BAdd(x, y) ==
  IF x.neg = y.neg THEN [neg |-> x.neg, mag |-> MAdd(x.mag, y.mag)]
  ELSE LET c == MCmp(x.mag, y.mag)
       IN  IF c = 0 THEN [neg |-> FALSE, mag |-> <<>>]
           ELSE IF c > 0 THEN [neg |-> x.neg, mag |-> MSub(x.mag, y.mag)]
           ELSE [neg |-> y.neg, mag |-> MSub(y.mag, x.mag)]

BMul(x, y) ==
  IF x.mag = <<>> \/ y.mag = <<>> THEN [neg |-> FALSE, mag |-> <<>>]
  ELSE [neg |-> x.neg # y.neg, mag |-> MMul(x.mag, y.mag)]

\* the product of a sequence of integers
BProd(ns) ==
  IF \E i \in 1..Len(ns) : ns[i] = 0 THEN [neg |-> FALSE, mag |-> <<>>]
  ELSE [neg |-> Cardinality({i \in 1..Len(ns) : ns[i] < 0}) % 2 = 1,
        mag |-> MProd([i \in 1..Len(ns) |-> Abs(ns[i])])]

RECURSIVE BSum(_)
BSum(xs) == IF xs = <<>> THEN Big(0) ELSE BAdd(Head(xs), BSum(Tail(xs)))

BToInt(x) == IF x.neg THEN -MToNat(x.mag) ELSE MToNat(x.mag)

\* floor(x / (d1 * d2 * ...)) for a signed x
BFloorDiv(x, ds) ==
  IF ~x.neg THEN [neg |-> FALSE, mag |-> MDivAll(x.mag, ds)]
  ELSE [neg |-> TRUE, mag |-> MAdd(MDivAll(MSub(x.mag, <<1>>), ds), <<1>>)]

\* a rational number: the signed numerator n over the product of the divisors d
Q(n, d) == [n |-> n, d |-> d]

\* Math.round of a rational: the nearest integer, a tie going up
round(q) ==
  BToInt(BFloorDiv(BAdd(BMul(Big(2), q.n), [neg |-> FALSE, mag |-> MProd(q.d)]),
                   <<2>> \o q.d))

\* Number(x.toFixed(f)) of a rational already scaled by 10^f: the nearest
\* integer, a tie going away from zero
toFixed(q) ==
  LET m == BToInt(BFloorDiv(BAdd(BMul(Big(2), [neg |-> FALSE, mag |-> q.n.mag]),
                                 [neg |-> FALSE, mag |-> MProd(q.d)]),
                            <<2>> \o q.d))
  IN  IF q.n.neg THEN -m ELSE m

\* safeDiv(num, den) scaled by `scale`, 0 (the fallback) on a zero denominator
safeDiv(num, den, scale) ==
  IF den # 0
    THEN Q(BProd(<<num, scale, IF den < 0 THEN -1 ELSE 1>>), <<Abs(den)>>)
    ELSE Q(Big(0), <<1>>)

\* pct(n): n * 100 to one decimal, held in tenths
pct(num, den) == toFixed(safeDiv(num, den, 1000))

(***************************************************************************)
(* Baseline constants and default parameters                               *)
(***************************************************************************)
\* taxRate is held in hundredths (0.22), effectiveRate in 1/100000 (0.04783)
B == [
  revenue |-> 22500000, cogs |-> 12300000, sga |-> 4200000, rd |-> 800000,
  da |-> 1700000, interestExpense |-> 440000, otherIncome |-> 120000,
  taxRate |-> 22, netIncome |-> 2480000, grossProfit |-> 10200000,
  ebit |-> 3500000,
  cash |-> 5200000, ar |-> 3400000, inventory |-> 2100000, prepaid |-> 450000,
  ppe |-> 15800000, intangibles |-> 2200000, goodwill |-> 1850000,
  ap |-> 2800000, shortTermDebt |-> 1200000, accruedExpenses |-> 950000,
  longTermDebt |-> 8000000, deferredTax |-> 650000, commonStock |-> 5000000,
  retainedEarnings |-> 10400000, apic |-> 2000000,
  totalCapex |-> 1500000, acquisitions |-> 1000000, debtRepayment |-> 800000,
  dividends |-> 600000, cashFromOps |-> 4100000,
  totalDebt |-> 9200000, effectiveRate |-> 4783 ]

\* the parameters in the order handleSubmit builds the vector
ParamNames == <<
  "productionCapacity", "inventoryTurnover", "supplierLeadTime", "cogsMaterials",
  "cogsLabor", "cogsOverhead", "salaryInflation", "headcountChange",
  "capexMaintenance", "capexGrowth", "depreciation", "rdExpenditure",
  "salesConversion", "customerChurn", "arDays", "apDays", "inventoryDays",
  "discount", "newProductImpact", "marketDemand", "competitionIndex",
  "commodityIndex", "supplyDisruption", "freightRates", "customerSentiment",
  "inflationRate", "interestRate", "unemploymentRate", "gdpGrowth",
  "consumerConfidence", "pmi", "bondYieldSpread", "creditSpread", "revenueShock",
  "cyberAttackDowntime", "esgPenalty", "forexRate" >>

\* how many model units make 1 of the parameter's own unit
Unit(k) ==
  IF k \in {"inventoryTurnover", "bondYieldSpread"} THEN 100
  ELSE IF k \in {"salaryInflation", "inflationRate", "interestRate",
                 "unemploymentRate", "gdpGrowth", "creditSpread", "forexRate"} THEN 10
  ELSE 1

DEFAULT_PARAMETERS == [
  productionCapacity |-> 80, inventoryTurnover |-> 586, supplierLeadTime |-> 30,
  cogsMaterials |-> 40, cogsLabor |-> 30, cogsOverhead |-> 30,
  salaryInflation |-> 30, headcountChange |-> 0, capexMaintenance |-> 1000000,
  capexGrowth |-> 500000, depreciation |-> 1700000, rdExpenditure |-> 800000,
  salesConversion |-> 10, customerChurn |-> 5, arDays |-> 55, apDays |-> 83,
  inventoryDays |-> 62, discount |-> 5, newProductImpact |-> 0,
  marketDemand |-> 100, competitionIndex |-> 50, commodityIndex |-> 100,
  supplyDisruption |-> 0, freightRates |-> 100, customerSentiment |-> 100,
  inflationRate |-> 25, interestRate |-> 55, unemploymentRate |-> 40,
  gdpGrowth |-> 21, consumerConfidence |-> 100, pmi |-> 50,
  bondYieldSpread |-> 76, creditSpread |-> 20, revenueShock |-> 0,
  cyberAttackDowntime |-> 0, esgPenalty |-> 0, forexRate |-> 870 ]

D == DEFAULT_PARAMETERS

(***************************************************************************)
(* Core engine: computeSimulation                                          *)
(***************************************************************************)
\* common denominator of the revenue contributions: 80*100, 100*100, 365, 870*100
RevScale == 64 * 3 * 625 * 29 * 73

\* n / d in units of 1 / RevScale (d divides RevScale)
RevPart(n, d) == n * (RevScale \div d)

\* a variant in which churn adds to revenue
revenueDeltaChurnAdds(params) ==
    RevPart((params.productionCapacity - D.productionCapacity) * 35,
            D.productionCapacity * 100)
  + RevPart((params.marketDemand - D.marketDemand) * 55, D.marketDemand * 100)
  + RevPart((params.salesConversion - D.salesConversion) * 12,
            D.salesConversion * 100)
  + RevPart((params.customerChurn - D.customerChurn) * 7, 100 * 10)
  - RevPart((params.discount - D.discount) * 6, 1000)
  + RevPart((params.consumerConfidence - D.consumerConfidence) * 20,
            D.consumerConfidence * 100)
  + RevPart((params.gdpGrowth - D.gdpGrowth) * 22, 10 * 1000)
  - RevPart((params.competitionIndex - D.competitionIndex) * 18,
            D.competitionIndex * 100)
  + RevPart((params.customerSentiment - D.customerSentiment) * 15,
            D.customerSentiment * 100)
  + RevPart((params.pmi - D.pmi) * 12, D.pmi * 100)
  - RevPart((params.unemploymentRate - D.unemploymentRate) * 18, 10 * 1000)
  - RevPart(params.cyberAttackDowntime, 365)
  + RevPart(params.revenueShock, 100)
  + RevPart((params.forexRate - D.forexRate) * 8, D.forexRate * 100)

\* a variant with a discount elasticity of 6 instead of 0.6
revenueDeltaDiscountTenfold(params) ==
    RevPart((params.productionCapacity - D.productionCapacity) * 35,
            D.productionCapacity * 100)
  + RevPart((params.marketDemand - D.marketDemand) * 55, D.marketDemand * 100)
  + RevPart((params.salesConversion - D.salesConversion) * 12,
            D.salesConversion * 100)
  - RevPart((params.customerChurn - D.customerChurn) * 7, 100 * 10)
  - RevPart((params.discount - D.discount) * 6, 100)
  + RevPart((params.consumerConfidence - D.consumerConfidence) * 20,
            D.consumerConfidence * 100)
  + RevPart((params.gdpGrowth - D.gdpGrowth) * 22, 10 * 1000)
  - RevPart((params.competitionIndex - D.competitionIndex) * 18,
            D.competitionIndex * 100)
  + RevPart((params.customerSentiment - D.customerSentiment) * 15,
            D.customerSentiment * 100)
  + RevPart((params.pmi - D.pmi) * 12, D.pmi * 100)
  - RevPart((params.unemploymentRate - D.unemploymentRate) * 18, 10 * 1000)
  - RevPart(params.cyberAttackDowntime, 365)
  + RevPart(params.revenueShock, 100)
  + RevPart((params.forexRate - D.forexRate) * 8, D.forexRate * 100)

\* 1. REVENUE: the sum of the contributions, in units of 1 / RevScale
revenueDelta(params) ==
    RevPart((params.productionCapacity - D.productionCapacity) * 35,
            D.productionCapacity * 100)
  + RevPart((params.marketDemand - D.marketDemand) * 55, D.marketDemand * 100)
  + RevPart((params.salesConversion - D.salesConversion) * 12,
            D.salesConversion * 100)
  - RevPart((params.customerChurn - D.customerChurn) * 7, 100 * 10)
  - RevPart((params.discount - D.discount) * 6, 1000)
  + RevPart((params.consumerConfidence - D.consumerConfidence) * 20,
            D.consumerConfidence * 100)
  + RevPart((params.gdpGrowth - D.gdpGrowth) * 22, 10 * 1000)
  - RevPart((params.competitionIndex - D.competitionIndex) * 18,
            D.competitionIndex * 100)
  + RevPart((params.customerSentiment - D.customerSentiment) * 15,
            D.customerSentiment * 100)
  + RevPart((params.pmi - D.pmi) * 12, D.pmi * 100)
  - RevPart((params.unemploymentRate - D.unemploymentRate) * 18, 10 * 1000)
  - RevPart(params.cyberAttackDowntime, 365)
  + RevPart(params.revenueShock, 100)
  + RevPart((params.forexRate - D.forexRate) * 8, D.forexRate * 100)

\* round(B.revenue * (1 + revenueDelta) + params.newProductImpact)
Revenue(params) ==
  round(Q(BAdd(BProd(<<B.revenue, RevScale + revenueDelta(params)>>),
               BProd(<<params.newProductImpact, RevScale>>)),
          <<RevScale \div 1000, 1000>>))

\* a variant that takes the mix parameters as per cent without normalizing
cogsWeightsPerCent(params) ==
  <<params.cogsMaterials, params.cogsLabor, 100>>

\* 2. COGS.  The weights are cogsX / cogsTotal, or 0.4 and 0.3 when the mix
\* sums to 0: <<materials, labor, denominator>>
cogsWeights(params) ==
  LET cogsTotal == params.cogsMaterials + params.cogsLabor + params.cogsOverhead
  IN  IF cogsTotal > 0 THEN <<params.cogsMaterials, params.cogsLabor, cogsTotal>>
      ELSE <<4, 3, 10>>

\* common denominator of the cost drivers: 100*100, 30*100, 25*100, 586*1000
CostScale == 16 * 3 * 625 * 293

\* costMultiplier, a rational over CostScale * (the weights' denominator)
costMultiplier(params) ==
  LET w  == cogsWeights(params)
      cs == CostScale
  IN  Q(BSum(<<
          BProd(<<cs, w[3]>>),
          BProd(<<params.commodityIndex - D.commodityIndex, w[1], 85,
                  cs \div (D.commodityIndex * 100)>>),
          BProd(<<params.freightRates - D.freightRates, 12,
                  cs \div (D.freightRates * 100), w[3]>>),
          BProd(<<params.salaryInflation - D.salaryInflation, w[2], 55,
                  cs \div (D.salaryInflation * 100)>>),
          BProd(<<params.headcountChange, w[2], 70, cs \div (100 * 100)>>),
          BProd(<<params.supplyDisruption, 35, cs \div (100 * 100), w[3]>>),
          BProd(<<params.inflationRate - D.inflationRate, 18,
                  cs \div (D.inflationRate * 100), w[3]>>),
          BProd(<<params.supplierLeadTime - D.supplierLeadTime, 4,
                  cs \div (D.supplierLeadTime * 100), w[3]>>),
          BProd(<<-(params.inventoryTurnover - D.inventoryTurnover), 25,
                  cs \div (D.inventoryTurnover * 1000), w[3]>>) >>),
        <<cs, w[3]>>)

\* a variant in which no part of COGS scales with revenue
CogsAllFixed(params, revenue) ==
  LET cm == costMultiplier(params)
  IN  round(Q(BMul(BProd(<<B.cogs, 10, B.revenue>>), cm.n),
              <<10, B.revenue>> \o cm.d))

\* round(variableCogs + fixedCogs): B.cogs * 0.70 * revenueRatio * costMultiplier
\* plus B.cogs * 0.30 * costMultiplier, with revenueRatio = revenue / B.revenue
Cogs(params, revenue) ==
  LET cm == costMultiplier(params)
      variableCogs == BMul(BProd(<<B.cogs, 7, revenue>>), cm.n)
      fixedCogs    == BMul(BProd(<<B.cogs, 3, B.revenue>>), cm.n)
  IN  round(Q(BAdd(variableCogs, fixedCogs), <<10, B.revenue>> \o cm.d))

\* 3. OPERATING EXPENSES
\* common denominator of the SG&A drivers: 30*100, 100*100, 25*100
SgaScale == 3 * 100 * 100

\* round(B.sga * sgaMultiplier + params.esgPenalty)
Sga(params) ==
  LET sgaMultiplier ==
          SgaScale
        + (params.salaryInflation - D.salaryInflation) * 55
            * (SgaScale \div (D.salaryInflation * 100))
        + params.headcountChange * 45 * (SgaScale \div (100 * 100))
        + (params.inflationRate - D.inflationRate) * 12
            * (SgaScale \div (D.inflationRate * 100))
  IN  round(Q(BAdd(BProd(<<B.sga, sgaMultiplier>>),
                   BProd(<<params.esgPenalty, SgaScale>>)),
              <<SgaScale>>))

\* a variant in which a capex cut lowers D&A
DaFollowsCuts(params) ==
  LET newCapex   == params.capexMaintenance + params.capexGrowth
      capexDelta == newCapex - B.totalCapex
  IN  round(Q(BAdd(BProd(<<params.depreciation, 10>>), Big(capexDelta)), <<10>>))

\* round(params.depreciation + max(0, capexDelta) * 0.10)
Da(params) ==
  LET newCapex   == params.capexMaintenance + params.capexGrowth
      capexDelta == newCapex - B.totalCapex
  IN  round(Q(BAdd(BProd(<<params.depreciation, 10>>), Big(Max(0, capexDelta))),
              <<10>>))

\* a variant without the floor on the effective rate
AdjustedInterestNoFloor(params) ==
  LET rateShift == (params.interestRate - D.interestRate) * 100
                   + (params.creditSpread - D.creditSpread) * 100
      newEffectiveRate == B.effectiveRate + rateShift
      interestExpense  == round(Q(BProd(<<B.totalDebt, newEffectiveRate>>),
                                  <<100000>>))
      spreadDelta == params.bondYieldSpread - D.bondYieldSpread
      spreadCost  == round(Q(BProd(<<Abs(spreadDelta), 50000>>), <<100>>))
  IN  interestExpense + (IF spreadDelta < 0 THEN spreadCost ELSE 0)

\* a variant that charges interest on the debt raised for growth capex too
AdjustedInterestOnNewDebt(params) ==
  LET rateShift == (params.interestRate - D.interestRate) * 100
                   + (params.creditSpread - D.creditSpread) * 100
      newEffectiveRate == Max(0, B.effectiveRate + rateShift)
      newDebt == Max(0, params.capexGrowth - D.capexGrowth) \div 2
      interestExpense  == round(Q(BProd(<<B.totalDebt + newDebt,
                                          newEffectiveRate>>), <<100000>>))
      spreadDelta == params.bondYieldSpread - D.bondYieldSpread
      spreadCost  == round(Q(BProd(<<Abs(spreadDelta), 50000>>), <<100>>))
  IN  interestExpense + (IF spreadDelta < 0 THEN spreadCost ELSE 0)

\* 4. BELOW THE LINE
\* interestExpense + (spreadDelta < 0 ? spreadCost : 0)
AdjustedInterest(params) ==
  LET rateShift == (params.interestRate - D.interestRate) * 100
                   + (params.creditSpread - D.creditSpread) * 100
      newEffectiveRate == Max(0, B.effectiveRate + rateShift)
      interestExpense  == round(Q(BProd(<<B.totalDebt, newEffectiveRate>>),
                                  <<100000>>))
      spreadDelta == params.bondYieldSpread - D.bondYieldSpread
      spreadCost  == round(Q(BProd(<<Abs(spreadDelta), 50000>>), <<100>>))
  IN  interestExpense + (IF spreadDelta < 0 THEN spreadCost ELSE 0)

\* a variant that books a tax credit on a loss
TaxOnLosses(ebt) == round(Q(BProd(<<ebt, B.taxRate>>), <<100>>))

\* ebt > 0 ? round(ebt * B.taxRate) : 0
Tax(ebt) == IF ebt > 0 THEN round(Q(BProd(<<ebt, B.taxRate>>), <<100>>)) ELSE 0

\* 5. BALANCE SHEET
\* round(flow / 365 * days)
DaysOf(flow, days) == round(Q(BProd(<<flow, days>>), <<365>>))

\* a variant in which a cut in growth capex repays debt
LongTermDebtFollowsCuts(params) ==
  round(Q(BAdd(BProd(<<B.longTermDebt, 2>>),
               Big(params.capexGrowth - D.capexGrowth)), <<2>>))

\* round(B.longTermDebt + growthCapexDelta * 0.50)
LongTermDebt(params) ==
  LET growthCapexDelta == Max(0, params.capexGrowth - D.capexGrowth)
  IN  round(Q(BAdd(BProd(<<B.longTermDebt, 2>>), Big(growthCapexDelta)), <<2>>))

\* a variant in which cash is not the plug but the baseline cash
CashKeptAtBaseline(totalLiabilities, totalEquity, ar, inventory, prepaid, nonCurrentAssets) ==
  B.cash

\* a variant that leaves the prepaid expenses out of the non-cash assets
CashPlugNoPrepaid(totalLiabilities, totalEquity, ar, inventory, prepaid, nonCurrentAssets) ==
  (totalLiabilities + totalEquity) - (ar + inventory + nonCurrentAssets)

\* cash is the plug: totalLiabAndEquity - nonCashAssets
CashPlug(totalLiabilities, totalEquity, ar, inventory, prepaid, nonCurrentAssets) ==
  LET nonCashAssets      == ar + inventory + prepaid + nonCurrentAssets
      totalLiabAndEquity == totalLiabilities + totalEquity
  IN  totalLiabAndEquity - nonCashAssets

\* a variant that adds the financing flow back instead of removing it
CfOpsSignSlip(netCashChange, cfInvesting, cfFinancing) ==
  netCashChange - cfInvesting + cfFinancing

\* 6. CASH FLOW: cfOps is the residual
CfOps(netCashChange, cfInvesting, cfFinancing) ==
  netCashChange - cfInvesting - cfFinancing

\* a variant that forgets to take depreciation out
WcChangesNoDa(cfOps, netIncome, da) == cfOps - netIncome

\* wcChanges is back-solved: cfOps - netIncome - da
WcChanges(cfOps, netIncome, da) == cfOps - netIncome - da

\* the one element of a singleton set
Only(S) == CHOOSE x \in S : TRUE

\* a variant that books no other income
PassThroughsNoOtherIncome ==
  [ otherIncome |-> 0, prepaid |-> B.prepaid, intangibles |-> B.intangibles,
    goodwill |-> B.goodwill, shortTermDebt |-> B.shortTermDebt,
    accruedExpenses |-> B.accruedExpenses, deferredTax |-> B.deferredTax,
    commonStock |-> B.commonStock, apic |-> B.apic ]

\* the lines the engine takes from the baseline as they are
PassThroughs ==
  [ otherIncome |-> B.otherIncome, prepaid |-> B.prepaid,
    intangibles |-> B.intangibles, goodwill |-> B.goodwill,
    shortTermDebt |-> B.shortTermDebt, accruedExpenses |-> B.accruedExpenses,
    deferredTax |-> B.deferredTax, commonStock |-> B.commonStock,
    apic |-> B.apic ]

\* the rounded cost lines that follow revenue
Costs(params, revenue) ==
  [ cogs |-> Cogs(params, revenue), sga |-> Sga(params), da |-> Da(params),
    adjustedInterest |-> AdjustedInterest(params) ]

\* ebt = ebit - adjustedInterest + otherIncome
Ebt(params, revenue, c) ==
  LET grossProfit == revenue - c.cogs
      totalOpex   == c.sga + params.rdExpenditure + c.da
      ebit        == grossProfit - totalOpex
  IN  ebit - c.adjustedInterest + PassThroughs.otherIncome

\* the rounded lines that follow the costs
Rounded(params, revenue, c) ==
  [ tax |-> Tax(Ebt(params, revenue, c)),
    ar |-> DaysOf(revenue, params.arDays),
    inventory |-> DaysOf(c.cogs, params.inventoryDays),
    ap |-> DaysOf(c.cogs, params.apDays),
    longTermDebt |-> LongTermDebt(params) ]

\* the Engine Numbers from the rounded lines: sums, the cash plug, the residual
\* cash flow and the ratios
EngineNumbers(params, revenue, c, r) ==
  LET cogs        == c.cogs
      grossProfit == revenue - cogs
      sga         == c.sga
      rd          == params.rdExpenditure
      newCapex    == params.capexMaintenance + params.capexGrowth
      da          == c.da
      totalOpex   == sga + rd + da
      ebit        == grossProfit - totalOpex
      adjustedInterest == c.adjustedInterest
      otherIncome == PassThroughs.otherIncome
      ebt         == ebit - adjustedInterest + otherIncome
      tax         == r.tax
      netIncome   == ebt - tax
      ar          == r.ar
      inventory   == r.inventory
      prepaid     == PassThroughs.prepaid
      ppeOpening  == B.ppe - B.totalCapex + B.da
      ppe         == ppeOpening + newCapex - da
      intangibles == PassThroughs.intangibles
      goodwill    == PassThroughs.goodwill
      nonCurrentAssets == ppe + intangibles + goodwill
      ap          == r.ap
      shortTermDebt   == PassThroughs.shortTermDebt
      accruedExpenses == PassThroughs.accruedExpenses
      currentLiabilities == ap + shortTermDebt + accruedExpenses
      longTermDebt == r.longTermDebt
      deferredTax  == PassThroughs.deferredTax
      nonCurrentLiabilities == longTermDebt + deferredTax
      totalLiabilities == currentLiabilities + nonCurrentLiabilities
      commonStock == PassThroughs.commonStock
      apic        == PassThroughs.apic
      retainedEarnings == B.retainedEarnings + (netIncome - B.netIncome)
      totalEquity == commonStock + retainedEarnings + apic
      cash        == CashPlug(totalLiabilities, totalEquity, ar, inventory,
                              prepaid, nonCurrentAssets)
      currentAssets == cash + ar + inventory + prepaid
      totalAssets == currentAssets + nonCurrentAssets
      capex       == -(params.capexMaintenance + params.capexGrowth)
      acquisitions == -B.acquisitions
      cfInvesting == capex + acquisitions
      newBorrowing == Max(0, longTermDebt - B.longTermDebt)
      cfFinancing == -B.debtRepayment + newBorrowing - B.dividends
      netCashChange == cash - B.cash
      cfOps       == CfOps(netCashChange, cfInvesting, cfFinancing)
      wcChanges   == WcChanges(cfOps, netIncome, da)
  IN  [ revenue |-> revenue, cogs |-> cogs, grossProfit |-> grossProfit,
        sga |-> sga, rd |-> rd, da |-> da, totalOpex |-> totalOpex,
        ebit |-> ebit, interestExpense |-> adjustedInterest,
        otherIncome |-> otherIncome, ebt |-> ebt, tax |-> tax,
        netIncome |-> netIncome,
        cash |-> cash, ar |-> ar, inventory |-> inventory, prepaid |-> prepaid,
        currentAssets |-> currentAssets, ppe |-> ppe,
        intangibles |-> intangibles, goodwill |-> goodwill,
        nonCurrentAssets |-> nonCurrentAssets, totalAssets |-> totalAssets,
        ap |-> ap, shortTermDebt |-> shortTermDebt,
        accruedExpenses |-> accruedExpenses,
        currentLiabilities |-> currentLiabilities,
        longTermDebt |-> longTermDebt, deferredTax |-> deferredTax,
        nonCurrentLiabilities |-> nonCurrentLiabilities,
        totalLiabilities |-> totalLiabilities, commonStock |-> commonStock,
        retainedEarnings |-> retainedEarnings, apic |-> apic,
        totalEquity |-> totalEquity,
        cfOps |-> cfOps, cfInvesting |-> cfInvesting,
        cfFinancing |-> cfFinancing, netCashChange |-> netCashChange,
        wcChanges |-> wcChanges, capex |-> capex,
        grossMargin |-> pct(grossProfit, revenue),
        operatingMargin |-> pct(ebit, revenue),
        netMargin |-> pct(netIncome, revenue),
        roe |-> pct(netIncome, totalEquity),
        roa |-> pct(netIncome, totalAssets),
        currentRatio |-> toFixed(safeDiv(currentAssets, currentLiabilities, 100)),
        debtToEquity |->
          toFixed(safeDiv(B.shortTermDebt + longTermDebt, totalEquity, 100)),
        interestCoverage |-> toFixed(safeDiv(ebit, adjustedInterest, 100)),
        assetTurnover |-> toFixed(safeDiv(revenue, totalAssets, 100)),
        cashConversionCycle |->
          params.arDays + params.inventoryDays - params.apDays ]

\* the stages in the order the code runs them, each rounded line computed once:
\* revenue, then the costs, then tax and working capital, then the rest
computeSimulation(params) ==
  Only({ Only({ Only({ EngineNumbers(params, revenue, c, r)
                       : r \in {Rounded(params, revenue, c)} })
                : c \in {Costs(params, revenue)} })
         : revenue \in {Revenue(params)} })

(***************************************************************************)
(* Sensitivity analysis                                                    *)
(***************************************************************************)
\* interestRate and inflationRate in tenths (3.0 .. 8.0, 1.0 .. 5.0)
SensitivityTests == <<
  [parameter |-> "Market Demand", key |-> "marketDemand", low |-> 80, high |-> 120],
  [parameter |-> "Production Capacity", key |-> "productionCapacity",
   low |-> 60, high |-> 100],
  [parameter |-> "Commodity Prices", key |-> "commodityIndex",
   low |-> 80, high |-> 130],
  [parameter |-> "Interest Rate", key |-> "interestRate", low |-> 30, high |-> 80],
  [parameter |-> "Inflation Rate", key |-> "inflationRate", low |-> 10, high |-> 50] >>

\* a variant that divides by the base metric itself, sign and all
ImpactSigned(high, low, base) == pct(high - low, IF base = 0 THEN 1 ELSE base)

\* Number(((high - low) / (Math.abs(base) || 1) * 100).toFixed(1)), in tenths
Impact(high, low, base) == pct(high - low, IF Abs(base) = 0 THEN 1 ELSE Abs(base))

\* a variant that reports the net-income impact as the revenue impact
SensitivityRowMixedUp(t, baseParams, baseResult, lowR, highR) ==
  [ parameter |-> t.parameter, lowValue |-> t.low,
    baseValue |-> baseParams[t.key], highValue |-> t.high,
    revenueImpact   |->
      Impact(highR.netIncome, lowR.netIncome, baseResult.netIncome),
    netIncomeImpact |->
      Impact(highR.netIncome, lowR.netIncome, baseResult.netIncome),
    cashFlowImpact  |-> Impact(highR.cfOps, lowR.cfOps, baseResult.cfOps) ]

\* one row: the engine run at the low and at the high value of the test's key
SensitivityRow(t, baseParams, baseResult, lowR, highR) ==
  [ parameter |-> t.parameter, lowValue |-> t.low,
    baseValue |-> baseParams[t.key], highValue |-> t.high,
    revenueImpact   |-> Impact(highR.revenue, lowR.revenue, baseResult.revenue),
    netIncomeImpact |->
      Impact(highR.netIncome, lowR.netIncome, baseResult.netIncome),
    cashFlowImpact  |-> Impact(highR.cfOps, lowR.cfOps, baseResult.cfOps) ]

\* a variant that writes the test value into the caller's object and passes
\* that object on
AssignInPlace(obj, key, value) ==
  [ arg |-> [obj EXCEPT ![key] = value], obj |-> [obj EXCEPT ![key] = value] ]

\* { ...baseParams, [t.key]: value }: the engine is handed a new object (arg);
\* the caller's object (obj) is left as it was
Spread(obj, key, value) ==
  [ arg |-> [obj EXCEPT ![key] = value], obj |-> obj ]

\* one pass of tests.map: the low run, the high run, then the row, which reads
\* baseParams[t.key]; with the row, the caller's object as the pass leaves it
SweepStep(t, obj, baseResult) ==
  Only({ Only({ Only({ [ row |-> SensitivityRow(t, hi.obj, baseResult, lowR, highR),
                         obj |-> hi.obj ]
                       : highR \in {computeSimulation(hi.arg)} })
                : hi \in {Spread(lo.obj, t.key, t.high)},
                  lowR \in {computeSimulation(lo.arg)} })
         : lo \in {Spread(obj, t.key, t.low)} })

\* tests.map from test i on: the rows, and the caller's object afterwards
RECURSIVE SweepFrom(_, _, _)
SweepFrom(obj, baseResult, i) ==
  IF i > Len(SensitivityTests) THEN [rows |-> <<>>, obj |-> obj]
  ELSE Only({ Only({ [rows |-> <<step.row>> \o rest.rows, obj |-> rest.obj]
                     : rest \in {SweepFrom(step.obj, baseResult, i + 1)} })
              : step \in {SweepStep(SensitivityTests[i], obj, baseResult)} })

computeSensitivity(baseParams, baseResult) ==
  SweepFrom(baseParams, baseResult, 1).rows

(***************************************************************************)
(* Health score (ratios in tenths of a percent / hundredths)               *)
(***************************************************************************)
\* a three-way ladder: hi when v >= a, mid when v >= b, lo when v < c, else 0
Ladder(v, a, hi, b, mid, c, lo) ==
  IF v >= a THEN hi ELSE IF v >= b THEN mid ELSE IF v < c THEN lo ELSE 0

\* revenueGrowth = (e.revenue - B.revenue) / B.revenue against 0.05, 0, -0.05, -0.15
GrowthPoints(e) ==
  LET g == e.revenue - B.revenue
  IN  IF g * 20 > B.revenue THEN 5
      ELSE IF g > 0 THEN 2
      ELSE IF g * 20 < -B.revenue THEN -5
      ELSE IF g * 20 < -3 * B.revenue THEN -10
      ELSE 0

RawScore(e) ==
    50
  + Ladder(e.grossMargin, 450, 5, 350, 2, 250, -5)
  + Ladder(e.operatingMargin, 150, 5, 100, 2, 50, -5)
  + Ladder(e.netMargin, 100, 5, 50, 2, 0, -10)
  + Ladder(e.roe, 140, 5, 100, 2, 50, -5)
  + Ladder(e.currentRatio, 200, 5, 150, 3, 100, -10)
  + (IF e.debtToEquity <= 50 THEN 5 ELSE IF e.debtToEquity <= 100 THEN 2
     ELSE IF e.debtToEquity > 200 THEN -10 ELSE 0)
  + Ladder(e.interestCoverage, 800, 5, 300, 2, 150, -10)
  + GrowthPoints(e)
  + (IF e.cfOps > 0 THEN 3 ELSE -5)
  + (IF e.netIncome > B.netIncome THEN 3 ELSE IF e.netIncome < 0 THEN -8 ELSE 0)

\* a variant whose thresholds are exclusive
RiskLevelOfExclusive(score) ==
  IF score > 72 THEN "low"
  ELSE IF score > 52 THEN "medium"
  ELSE IF score > 32 THEN "high"
  ELSE "critical"

RiskLevelOf(score) ==
  IF score >= 72 THEN "low"
  ELSE IF score >= 52 THEN "medium"
  ELSE IF score >= 32 THEN "high"
  ELSE "critical"

\* a variant that caps the score at 100 and forgets the floor of 0
computeHealthScoreNoFloor(e) ==
  LET score == Min(100, RawScore(e))
  IN  [score |-> score, riskLevel |-> RiskLevelOf(score)]

computeHealthScore(e) ==
  LET score == Max(0, Min(100, RawScore(e)))
  IN  [score |-> score, riskLevel |-> RiskLevelOf(score)]

(***************************************************************************)
(* Waterfall (net income bridge)                                           *)
(***************************************************************************)
\* round(3_180_000 * B.taxRate)
BaselineTax == round(Q(BProd(<<3180000, B.taxRate>>), <<100>>))

TagOf(v) == IF v >= 0 THEN "increase" ELSE "decrease"

buildWaterfall(e) ==
  LET revenueImpact  == e.revenue - B.revenue
      cogsImpact     == -(e.cogs - B.cogs)
      sgaImpact      == -(e.sga - B.sga)
      rdImpact       == -(e.rd - B.rd)
      daImpact       == -(e.da - B.da)
      interestImpact == -(e.interestExpense - B.interestExpense)
  IN  << [name |-> "Original Net Income", value |-> B.netIncome, type |-> "total"],
         [name |-> "Revenue Change", value |-> revenueImpact,
          type |-> TagOf(revenueImpact)],
         [name |-> "COGS Change", value |-> cogsImpact, type |-> TagOf(cogsImpact)],
         [name |-> "SG&A Change", value |-> sgaImpact, type |-> TagOf(sgaImpact)],
         [name |-> "R&D Change", value |-> rdImpact, type |-> TagOf(rdImpact)],
         [name |-> "D&A Change", value |-> daImpact, type |-> TagOf(daImpact)],
         [name |-> "Interest Change", value |-> interestImpact,
          type |-> TagOf(interestImpact)],
         [name |-> "Tax Change", value |-> -(e.tax - BaselineTax),
          type |-> IF e.tax <= BaselineTax THEN "increase" ELSE "decrease"],
         [name |-> "Simulated Net Income", value |-> e.netIncome,
          type |-> "total"] >>

(***************************************************************************)
(* Assembling the SimulationResult                                         *)
(***************************************************************************)
Line(item, amount) == [item |-> item, amount |-> amount]

Metric(name, original, simulated) ==
  [name |-> name, original |-> original, simulated |-> simulated]

\* a variant that reports a parameter only when it is more than 1 off
ChangedByMoreThanOne(k, v) == Abs(v - D[k]) > Unit(k)

\* Math.abs(v - def) > 0.01 on the parameter's own unit: more than
\* Unit(k) / 100 model units.  In doubles a bondYieldSpread one hundredth off
\* its default (0.75, 0.77) differs from it by 0.010000000000000009, which
\* is > 0.01.
Changed(k, v) ==
  \/ Abs(v - D[k]) > Unit(k) \div 100
  \/ k = "bondYieldSpread" /\ Abs(v - D[k]) = 1

\* the entries `k: def -> v` of the changed parameters, in the vector's order;
\* none stands for 'All parameters at baseline (no changes).'
changedParams(params) ==
  LET ks == SelectSeq(ParamNames, LAMBDA k : Changed(k, params[k]))
  IN  [i \in 1..Len(ks) |-> <<ks[i], D[ks[i]], params[ks[i]]>>]

buildSimulationResult(params, engine, sensitivity) ==
  LET health == computeHealthScore(engine)
  IN  [ simulationParameters |-> changedParams(params),
        simulatedProfitAndLoss |-> <<
          Line("Revenue", engine.revenue),
          Line("Cost of Goods Sold", -engine.cogs),
          Line("Gross Profit", engine.grossProfit),
          Line("Selling, General & Admin", -engine.sga),
          Line("Research & Development", -engine.rd),
          Line("Depreciation & Amortization", -engine.da),
          Line("Total Operating Expenses", -engine.totalOpex),
          Line("Operating Income (EBIT)", engine.ebit),
          Line("Interest Expense", -engine.interestExpense),
          Line("Other Income / (Expense)", engine.otherIncome),
          Line("Earnings Before Tax (EBT)", engine.ebt),
          Line("Income Tax Expense", -engine.tax),
          Line("Net Income", engine.netIncome) >>,
        simulatedBalanceSheet |-> [
          assets |-> <<
            Line("Cash and Equivalents", engine.cash),
            Line("Accounts Receivable", engine.ar),
            Line("Inventory", engine.inventory),
            Line("Prepaid Expenses", engine.prepaid),
            Line("Current Assets", engine.currentAssets),
            Line("Property, Plant & Equipment", engine.ppe),
            Line("Intangible Assets", engine.intangibles),
            Line("Goodwill", engine.goodwill),
            Line("Non-Current Assets", engine.nonCurrentAssets),
            Line("Total Assets", engine.totalAssets) >>,
          liabilities |-> <<
            Line("Accounts Payable", engine.ap),
            Line("Short-term Debt", engine.shortTermDebt),
            Line("Accrued Expenses", engine.accruedExpenses),
            Line("Current Liabilities", engine.currentLiabilities),
            Line("Long-term Debt", engine.longTermDebt),
            Line("Deferred Tax Liabilities", engine.deferredTax),
            Line("Non-Current Liabilities", engine.nonCurrentLiabilities),
            Line("Total Liabilities", engine.totalLiabilities) >>,
          equity |-> <<
            Line("Common Stock", engine.commonStock),
            Line("Retained Earnings", engine.retainedEarnings),
            Line("Additional Paid-in Capital", engine.apic),
            Line("Total Equity", engine.totalEquity),
            Line("Total Liabilities & Equity", engine.totalAssets) >> ],
        simulatedCashFlow |-> <<
          Line("Net Income", engine.netIncome),
          Line("Depreciation & Amortization", engine.da),
          Line("Changes in Working Capital", engine.wcChanges),
          Line("Cash from Operations", engine.cfOps),
          Line("Capital Expenditures", engine.capex),
          Line("Acquisitions", -B.acquisitions),
          Line("Cash from Investing", engine.cfInvesting),
          Line("Debt Repayment", -B.debtRepayment),
          Line("New Borrowings", Max(0, engine.longTermDebt - B.longTermDebt)),
          Line("Dividends Paid", -B.dividends),
          Line("Cash from Financing", engine.cfFinancing),
          Line("Net Change in Cash", engine.netCashChange) >>,
        keyMetrics |-> <<
          Metric("Revenue", B.revenue, engine.revenue),
          Metric("Gross Profit", B.grossProfit, engine.grossProfit),
          Metric("EBIT", B.ebit, engine.ebit),
          Metric("Net Income", B.netIncome, engine.netIncome),
          Metric("Total Assets",
                 B.cash + B.ar + B.inventory + B.prepaid + B.ppe + B.intangibles
                   + B.goodwill,
                 engine.totalAssets),
          Metric("Operating Cash Flow", B.cashFromOps, engine.cfOps),
          Metric("Free Cash Flow", B.cashFromOps - B.totalCapex,
                 engine.cfOps + engine.capex) >>,
        economicTrends |-> <<
          [name |-> "GDP Growth", value |-> params.gdpGrowth],
          [name |-> "Inflation Rate", value |-> params.inflationRate],
          [name |-> "Interest Rate", value |-> params.interestRate],
          [name |-> "Unemployment", value |-> params.unemploymentRate],
          [name |-> "Consumer Confidence", value |-> params.consumerConfidence],
          [name |-> "PMI", value |-> params.pmi],
          [name |-> "Forex (USD/INR)", value |-> params.forexRate],
          [name |-> "Commodity Index", value |-> params.commodityIndex] >>,
        financialRatios |-> <<
          Metric("Gross Margin", 453, engine.grossMargin),
          Metric("Operating Margin", 156, engine.operatingMargin),
          Metric("Net Margin", 110, engine.netMargin),
          Metric("ROE", 143, engine.roe),
          Metric("ROA", 80, engine.roa),
          Metric("Current Ratio", 225, engine.currentRatio),
          Metric("Debt/Equity", 53, engine.debtToEquity),
          Metric("Interest Coverage", 795, engine.interestCoverage),
          Metric("Asset Turnover", 73, engine.assetTurnover),
          Metric("Cash Conversion Cycle", 34, engine.cashConversionCycle) >>,
        waterfallData |-> buildWaterfall(engine),
        sensitivityData |-> sensitivity,
        overallScore |-> health.score,
        riskLevel |-> health.riskLevel ]

\* the main entry point
runFullSimulation(params) ==
  Only({ buildSimulationResult(params, engine, computeSensitivity(params, engine))
         : engine \in {computeSimulation(params)} })

(***************************************************************************)
(* Parameter Vectors: what the sliders of the controls panel can submit    *)
(***************************************************************************)
\* per parameter, slider positions away from the default: the ends of the
\* slider's range and the positions next to the default
SliderValues == [
  productionCapacity |-> {0, 79, 81, 100},
  inventoryTurnover |-> {100, 580, 590, 2000},
  supplierLeadTime |-> {0, 29, 31, 90},
  cogsMaterials |-> {0, 39, 41, 100},
  cogsLabor |-> {0, 29, 31, 100},
  cogsOverhead |-> {0, 29, 31, 100},
  salaryInflation |-> {0, 29, 31, 100},
  headcountChange |-> {-50, -1, 1, 50},
  capexMaintenance |-> {0, 900000, 1100000, 5000000},
  capexGrowth |-> {0, 400000, 600000, 10000000},
  depreciation |-> {0, 1600000, 1800000, 5000000},
  rdExpenditure |-> {0, 700000, 900000, 5000000},
  salesConversion |-> {0, 9, 11, 100},
  customerChurn |-> {0, 4, 6, 50, 100},
  arDays |-> {0, 54, 56, 120},
  apDays |-> {0, 82, 84, 120},
  inventoryDays |-> {0, 61, 63, 180},
  discount |-> {0, 4, 6, 15, 50},
  newProductImpact |-> {1000000, 50000000},
  marketDemand |-> {0, 50, 80, 99, 101, 120, 150},
  competitionIndex |-> {0, 49, 51, 100},
  commodityIndex |-> {50, 99, 101, 150},
  supplyDisruption |-> {1, 20},
  freightRates |-> {50, 99, 101, 200},
  customerSentiment |-> {50, 99, 101, 150},
  inflationRate |-> {0, 24, 26, 100},
  interestRate |-> {0, 54, 56, 150},
  unemploymentRate |-> {0, 39, 41, 150},
  gdpGrowth |-> {-50, 20, 22, 100},
  consumerConfidence |-> {50, 99, 101, 150},
  pmi |-> {30, 49, 51, 70},
  bondYieldSpread |-> {-100, 75, 77, 500},
  creditSpread |-> {0, 19, 21, 100},
  revenueShock |-> {-50, -5, 5, 50},
  cyberAttackDowntime |-> {1, 30},
  esgPenalty |-> {100000, 5000000},
  forexRate |-> {600, 869, 871, 1200} ]

\* the whole range of the two integer sliders whose effect on revenue is
\* compared value by value (min 0, step 1)
SliderRange == [marketDemand |-> 0..150, customerChurn |-> 0..100]

\* one slider moved, the rest at their defaults
Singles ==
  UNION { {[D EXCEPT ![k] = v] : v \in SliderValues[k]} : k \in DOMAIN SliderValues }

\* several sliders moved
Scenarios == {
  [D EXCEPT !.cogsMaterials = 0, !.cogsLabor = 0, !.cogsOverhead = 0],
  [D EXCEPT !.cogsMaterials = 80, !.cogsLabor = 80, !.cogsOverhead = 80],
  [D EXCEPT !.marketDemand = 60, !.interestRate = 120, !.commodityIndex = 140],
  [D EXCEPT !.marketDemand = 130, !.salesConversion = 14,
            !.commodityIndex = 80],
  [D EXCEPT !.revenueShock = -50, !.marketDemand = 20, !.customerChurn = 40],
  [D EXCEPT !.revenueShock = -50, !.marketDemand = 0,
            !.productionCapacity = 0, !.customerChurn = 100],
  [D EXCEPT !.capexGrowth = 10000000, !.capexMaintenance = 5000000],
  [D EXCEPT !.interestRate = 0, !.creditSpread = 0],
  [D EXCEPT !.supplyDisruption = 20, !.freightRates = 200,
            !.commodityIndex = 150, !.inflationRate = 100],
  [D EXCEPT !.newProductImpact = 50000000, !.marketDemand = 150],
  [D EXCEPT !.arDays = 0, !.apDays = 0, !.inventoryDays = 0],
  [D EXCEPT !.discount = 15, !.apDays = 60],
  [D EXCEPT !.esgPenalty = 5000000, !.cyberAttackDowntime = 30],
  [D EXCEPT !.headcountChange = -50, !.salaryInflation = 0],
  [D EXCEPT !.marketDemand = 104, !.discount = 3],
  [D EXCEPT !.marketDemand = 90, !.commodityIndex = 110, !.interestRate = 70],
  [D EXCEPT !.marketDemand = 110, !.commodityIndex = 120,
            !.headcountChange = 10],
  [D EXCEPT !.cogsMaterials = 20, !.cogsLabor = 50, !.cogsOverhead = 30,
            !.commodityIndex = 120, !.headcountChange = 10],
  [D EXCEPT !.cogsMaterials = 0, !.cogsLabor = 0, !.cogsOverhead = 0,
            !.commodityIndex = 120, !.salaryInflation = 50] }

Vectors == {D} \cup Singles \cup Scenarios

(***************************************************************************)
(* The server action handleNaturalLanguageQuery and the commentary         *)
(* collaborator (generateQualitativeAnalysis) it awaits.  The collaborator *)
(* is the environment: its promise is fulfilled with prose, fulfilled with *)
(* a falsy value, rejected, or left pending.                               *)
(***************************************************************************)
\* how many different commentaries the collaborator can answer with
MaxProse == 2

\* null, and a value that is present
Null == <<>>

Some(x) == <<x>>

VARIABLES
  pc,               \* the call: "idle", "awaiting" (at the await), "returned"
  sliderParameters, \* the Parameter Vector the action is called with
  engine,           \* runFullSimulation's local: computeSimulation(params)
  engineResult,     \* const engineResult = runFullSimulation(sliderParameters)
  narrative,        \* the locals analysis, suggestions, riskAssessment
  ai,               \* the promise of generateQualitativeAnalysis
  warned,           \* console.warn was called for a failed commentary
  ret,              \* what the action returned
  scored,           \* computeHealthScore applied to given Engine Numbers
  callerVector,     \* the Parameter Vector object a caller of the engine holds
  asked,            \* the values the caller last put into that object
  runs,             \* engine runs in progress side by side, each at a stage
  calls,            \* the engine-plus-sweep invocations made so far, in order
  home,             \* the state of the page component Home
  controls          \* the slider state of SimulationControls while mounted

\* the variables of the server action, and those of the engine taken alone
handler == <<pc, sliderParameters, engine, engineResult, narrative, ai, warned, ret>>

alone == <<scored, callerVector, asked, runs, calls>>

\* the variables of the page
page == <<home, controls>>

vars == <<handler, alone, page>>

\* the placeholder texts; the template literal is held as its parts
Placeholders(result) ==
  [ analysis |->
      <<"Simulation completed. Adjust parameters to explore scenarios.">>,
    suggestions |->
      <<"Try adjusting market demand, production capacity, or interest rates to see the impact on financial statements.">>,
    riskAssessment |->
      <<"Overall risk level: ", result.riskLevel, ". Health score: ",
        result.overallScore, "/100.">> ]

\* the i-th commentary the collaborator can answer with
Prose(i) ==
  [ simulationAnalysis |-> <<"analysis", i>>, suggestions |-> <<"suggestions", i>>,
    riskAssessment |-> <<"riskAssessment", i>> ]

\* if (aiResult) { analysis = ...; suggestions = ...; riskAssessment = ... }
Merge(narr, aiResult) ==
  IF aiResult # Null
    THEN [ analysis |-> aiResult[1].simulationAnalysis,
           suggestions |-> aiResult[1].suggestions,
           riskAssessment |-> aiResult[1].riskAssessment ]
    ELSE narr

\* a variant that copies the result field by field and forgets the waterfall
FullResultFieldByField(result, narr) ==
  [ simulationAnalysis |-> narr.analysis, suggestions |-> narr.suggestions,
    riskAssessment |-> narr.riskAssessment ]
  @@ [f \in DOMAIN result \ {"waterfallData"} |-> result[f]]

\* { ...engineResult, simulationAnalysis: analysis, suggestions, riskAssessment }
FullResult(result, narr) ==
  [ simulationAnalysis |-> narr.analysis, suggestions |-> narr.suggestions,
    riskAssessment |-> narr.riskAssessment ] @@ result

\* the locals after the inner try: a fulfilled promise is merged, a rejected one
\* is caught and leaves the placeholders
AfterTry(narr, promise) ==
  IF promise.state = "fulfilled" THEN Merge(narr, promise.value) ELSE narr

\* a variant without the inner try: a rejection reaches the outer catch
SettledUncaught(result, narr, promise) ==
  IF promise.state = "rejected"
    THEN [ data |-> Null,
           error |-> Some(<<"Failed to run simulation: ", "message">>) ]
    ELSE [ data |-> Some(FullResult(result, Merge(narr, promise.value))),
           error |-> Null ]

\* what the action returns once the promise has settled
Settled(result, narr, promise) ==
  [ data |-> Some(FullResult(result, AfterTry(narr, promise))), error |-> Null ]

\* how many engine runs are in progress side by side, and how many
\* invocations one caller makes in a row
MaxRuns == 2

MaxCalls == 3

\* a slot in which no run has started
Free == [stage |-> "free"]

Init ==
  /\ pc = "idle"
  /\ sliderParameters = D
  /\ engine = Null
  /\ engineResult = Null
  /\ narrative = Null
  /\ ai = [state |-> "none"]
  /\ warned = FALSE
  /\ ret = Null
  /\ scored = Null
  /\ callerVector = D
  /\ asked = D
  /\ runs = [i \in 1..MaxRuns |-> Free]
  /\ calls = <<>>
  /\ home = [ simulationResult |-> Null, simulationParams |-> Null,
              isLoading |-> FALSE, error |-> Null, sidebarOpen |-> TRUE ]
  /\ controls = D

\* the action is called: the engine runs, the placeholders are set and the
\* collaborator is called; the action stops at the await
Entered(p) ==
  /\ pc = "idle"
  /\ sliderParameters' = p
  /\ engine' = computeSimulation(p)
  /\ \E result \in {runFullSimulation(p)} :
       /\ engineResult' = result
       /\ narrative' = Placeholders(result)
  /\ ai' = [state |-> "pending"]
  /\ pc' = "awaiting"
  /\ UNCHANGED <<warned, ret>>

\* the action is called by a caller of its own
Call(p) ==
  /\ Entered(p)
  /\ UNCHANGED <<alone, page>>

\* the collaborator answers with prose
AiReturnsProse(i) ==
  /\ pc = "awaiting" /\ ai.state = "pending"
  /\ ai' = [state |-> "fulfilled", value |-> Some(Prose(i))]
  /\ UNCHANGED <<pc, sliderParameters, engine, engineResult, narrative, warned, ret>>
  /\ UNCHANGED <<alone, page>>

\* the collaborator answers with a falsy value
AiReturnsFalsy ==
  /\ pc = "awaiting" /\ ai.state = "pending"
  /\ ai' = [state |-> "fulfilled", value |-> Null]
  /\ UNCHANGED <<pc, sliderParameters, engine, engineResult, narrative, warned, ret>>
  /\ UNCHANGED <<alone, page>>

\* the collaborator throws or rejects
AiThrows ==
  /\ pc = "awaiting" /\ ai.state = "pending"
  /\ ai' = [state |-> "rejected"]
  /\ UNCHANGED <<pc, sliderParameters, engine, engineResult, narrative, warned, ret>>
  /\ UNCHANGED <<alone, page>>

\* the await is over: merge or catch, build fullResult, return
Resume ==
  /\ pc = "awaiting" /\ ai.state \in {"fulfilled", "rejected"}
  /\ narrative' = AfterTry(narrative, ai)
  /\ warned' = (ai.state = "rejected")
  /\ ret' = Settled(engineResult, narrative, ai)
  /\ pc' = "returned"
  /\ UNCHANGED <<sliderParameters, engine, engineResult, ai>>
  /\ UNCHANGED <<alone, page>>

Next ==
  \/ \E p \in Vectors : Call(p)
  \/ \E i \in 1..MaxProse : AiReturnsProse(i)
  \/ AiReturnsFalsy
  \/ AiThrows
  \/ Resume

Spec == Init /\ [][Next]_vars

\* the runtime resumes the action once the promise has settled; nothing makes
\* the collaborator answer
FairSpec == Spec /\ WF_vars(Resume)

(***************************************************************************)
(* The health scorer taken alone: computeHealthScore applied to Engine     *)
(* Numbers that sit on, between and beyond the thresholds of every check   *)
(***************************************************************************)
\* the fields computeHealthScore reads, each at values around its thresholds
ScoreInputs ==
  [ grossMargin : {450, 350, 250, 249},
    operatingMargin : {150, 49},
    netMargin : {100, 50, 0, -1},
    roe : {140, 49},
    currentRatio : {200, 150, 100, 99},
    debtToEquity : {50, 100, 200, 201},
    interestCoverage : {800, 300, 150, 149},
    revenue : { B.revenue + B.revenue \div 20 + 1, B.revenue + 1, B.revenue,
                B.revenue - B.revenue \div 10, B.revenue - B.revenue \div 5 },
    cfOps : {1, 0},
    netIncome : {B.netIncome + 1, 0, -1} ]

\* const { score, riskLevel } = computeHealthScore(engine)
Score(e) ==
  /\ scored = Null
  /\ scored' = [input |-> e, out |-> computeHealthScore(e)]
  /\ UNCHANGED <<handler, page, callerVector, asked, runs, calls>>

\* one input is scored, once
ScoreNext == scored = Null /\ \E e \in ScoreInputs : Score(e)

ScoreSpec == Init /\ [][ScoreNext]_vars

(***************************************************************************)
(* The engine taken alone, several runs side by side.  computeSimulation   *)
(* is one synchronous function; it is cut here at its four parts (the      *)
(* revenue, the costs, the rounding, the returned object) so that runs can *)
(* interleave.  The first slot holds a run that was handed the caller's    *)
(* object itself, as computeSensitivity's caller does for the base run;    *)
(* the other slots hold runs of the sweep, each handed its own object.     *)
(* B and D are definitions: no statement of the source assigns to them.    *)
(***************************************************************************)
LabVectors ==
  { D,
    [D EXCEPT !.revenueShock = -50, !.marketDemand = 20, !.customerChurn = 40] }

Sides == {"low", "high"}

Midway == {"costs", "rounded", "numbers"}

Idle == \A i \in 1..MaxRuns : runs[i].stage = "free"

\* the caller moves the sliders while no run is in progress
SetSliders(p) ==
  /\ Idle
  /\ callerVector' = p
  /\ asked' = p
  /\ UNCHANGED <<handler, page, scored, runs, calls>>

\* a run at its entry: byRef says that params is the caller's object, own is
\* the object made for the run otherwise; input keeps the values at entry.
\* The slots of the sweep are taken in order.
Started(byRef, own, input) ==
  [ stage |-> "revenue", byRef |-> byRef, own |-> own, input |-> input,
    beside |-> FALSE, revenue |-> Null, c |-> Null, r |-> Null,
    result |-> Null, expected |-> Null ]

\* the object the run reads through params
ParamsOf(run) == IF run.byRef THEN callerVector ELSE run.own

\* the run that holds the caller's object takes a step while another run is
\* between its first and its last part
Overlaps(i, run) ==
  run.byRef /\ \E j \in 1..MaxRuns \ {i} : runs[j].stage \in Midway

\* computeSimulation(baseParams) is entered
StartBase ==
  /\ runs[1].stage = "free"
  /\ runs' = [runs EXCEPT ![1] = Started(TRUE, Null, callerVector)]
  /\ UNCHANGED <<handler, page, scored, callerVector, asked, calls>>

\* computeSimulation({ ...baseParams, [t.key]: t.low }) or its high twin is
\* entered
StartPerturbed(i, t, side) ==
  /\ runs[i].stage = "free"
  /\ \A j \in 2..(i - 1) : runs[j].stage # "free"
  /\ \E s \in {Spread(callerVector, t.key, t[side])} :
       /\ runs' = [runs EXCEPT ![i] = Started(FALSE, s.arg, s.arg)]
       /\ callerVector' = s.obj
  /\ UNCHANGED <<handler, page, scored, asked, calls>>

\* lines 153-212: the revenue
StepRevenue(i) ==
  /\ runs[i].stage = "revenue"
  /\ runs' = [runs EXCEPT ![i] =
                [@ EXCEPT !.revenue = Revenue(ParamsOf(runs[i])),
                          !.beside = @ \/ Overlaps(i, runs[i]),
                          !.stage = "costs"]]
  /\ UNCHANGED <<handler, page, scored, callerVector, asked, calls>>

\* lines 217-300: the costs
StepCosts(i) ==
  /\ runs[i].stage = "costs"
  /\ runs' = [runs EXCEPT ![i] =
                [@ EXCEPT !.c = Costs(ParamsOf(runs[i]), runs[i].revenue),
                          !.beside = @ \/ Overlaps(i, runs[i]),
                          !.stage = "rounded"]]
  /\ UNCHANGED <<handler, page, scored, callerVector, asked, calls>>

\* the rounding of the cost lines
StepRounded(i) ==
  /\ runs[i].stage = "rounded"
  /\ runs' = [runs EXCEPT ![i] =
                [@ EXCEPT !.r = Rounded(ParamsOf(runs[i]), runs[i].revenue,
                                        runs[i].c),
                          !.beside = @ \/ Overlaps(i, runs[i]),
                          !.stage = "numbers"]]
  /\ UNCHANGED <<handler, page, scored, callerVector, asked, calls>>

\* lines 302-453: the statements and the returned object; expected is the
\* same run executed alone on the values it was entered with
StepNumbers(i) ==
  /\ runs[i].stage = "numbers"
  /\ runs' = [runs EXCEPT ![i] =
                [@ EXCEPT !.result = EngineNumbers(ParamsOf(runs[i]),
                                                   runs[i].revenue,
                                                   runs[i].c, runs[i].r),
                          !.expected = computeSimulation(runs[i].input),
                          !.beside = @ \/ Overlaps(i, runs[i]),
                          !.stage = "done"]]
  /\ UNCHANGED <<handler, page, scored, callerVector, asked, calls>>

PoolNext ==
  \/ \E p \in LabVectors : SetSliders(p)
  \/ StartBase
  \/ \E i \in 2..MaxRuns, n \in DOMAIN SensitivityTests, side \in Sides :
       StartPerturbed(i, SensitivityTests[n], side)
  \/ \E i \in 1..MaxRuns : StepRevenue(i)
  \/ \E i \in 1..MaxRuns : StepCosts(i)
  \/ \E i \in 1..MaxRuns : StepRounded(i)
  \/ \E i \in 1..MaxRuns : StepNumbers(i)

PoolSpec == Init /\ [][PoolNext]_vars

(***************************************************************************)
(* The engine taken alone, one caller invoking it again and again on the   *)
(* object it holds: computeSimulation, then computeSensitivity on the same *)
(* object, as runFullSimulation does.  The source has no Math.random, no   *)
(* clock and no module-level variable; what one invocation can leave       *)
(* behind for the next is the caller's object, which the sweep is handed.  *)
(***************************************************************************)
RepeatVectors ==
  LabVectors \cup
    { [D EXCEPT !.marketDemand = 90, !.commodityIndex = 110, !.interestRate = 70],
      [D EXCEPT !.discount = 15, !.apDays = 60] }

\* the three impacts of every row of the sweep
Impacts(rows) ==
  [ n \in DOMAIN rows |->
      [ revenueImpact |-> rows[n].revenueImpact,
        netIncomeImpact |-> rows[n].netIncomeImpact,
        cashFlowImpact |-> rows[n].cashFlowImpact ] ]

\* lines 725-726: the engine, then the sweep, on the object the caller holds
Invoke ==
  /\ Len(calls) < MaxCalls
  /\ \E baseResult \in {computeSimulation(callerVector)} :
       \E sweep \in {SweepFrom(callerVector, baseResult, 1)} :
         /\ calls' = Append(calls, [ asked |-> asked, engine |-> baseResult,
                                     impacts |-> Impacts(sweep.rows) ])
         /\ callerVector' = sweep.obj
  /\ UNCHANGED <<handler, page, scored, asked, runs>>

RepeatNext ==
  \/ \E p \in RepeatVectors : SetSliders(p)
  \/ Invoke

RepeatSpec == Init /\ [][RepeatNext]_vars

(***************************************************************************)
(* The page: Home holds the result, the loading flag, the error and the    *)
(* parameters of the last run; SimulationControls holds the sliders and    *)
(* the submit button, and calls the server action modelled above.          *)
(***************************************************************************)
PageVectors == LabVectors \cup { [D EXCEPT !.marketDemand = 120] }

\* a variant that keeps the last result on screen when handed null
handleSimulationKeepsResult(h, result, loading, errorMsg, params) ==
  [h EXCEPT !.simulationResult = IF result # Null THEN result ELSE @,
            !.isLoading = loading,
            !.error = errorMsg,
            !.simulationParams = IF params # Null THEN params ELSE @]

\* Home.handleSimulation: the three setters, and setSimulationParams when
\* params is given
handleSimulation(h, result, loading, errorMsg, params) ==
  [h EXCEPT !.simulationResult = result,
            !.isLoading = loading,
            !.error = errorMsg,
            !.simulationParams = IF params # Null THEN params ELSE @]

\* the user moves sliders; the controls are in the open sidebar
MoveSliders(p) ==
  /\ home.sidebarOpen
  /\ controls' = p
  /\ UNCHANGED <<handler, alone, home>>

\* the toggle button: closing the sidebar unmounts the controls, opening it
\* mounts them with the default sliders
setSidebarOpen ==
  /\ home' = [home EXCEPT !.sidebarOpen = ~@]
  /\ controls' = IF home.sidebarOpen THEN Null ELSE D
  /\ UNCHANGED <<handler, alone>>

\* the form is submitted (the button is rendered and not disabled):
\* onSimulate(null, true, null), then the server action is called with the
\* sliders' values and handleSubmit stops at its await
handleSubmit ==
  /\ home.sidebarOpen /\ ~home.isLoading
  /\ home' = handleSimulation(home, Null, TRUE, Null, Null)
  /\ Entered(controls)
  /\ UNCHANGED <<alone, controls>>

\* the server action has returned: handleSubmit goes on after its await with
\* the vector it submitted, and the invocation is over
handleSubmitResumes ==
  /\ pc = "returned"
  /\ home' = IF ret.error # Null
               THEN handleSimulation(home, Null, FALSE, ret.error,
                                     sliderParameters)
               ELSE handleSimulation(home, ret.data, FALSE, Null,
                                     sliderParameters)
  /\ pc' = "idle"
  /\ sliderParameters' = D
  /\ engine' = Null
  /\ engineResult' = Null
  /\ narrative' = Null
  /\ ai' = [state |-> "none"]
  /\ warned' = FALSE
  /\ ret' = Null
  /\ UNCHANGED <<alone, controls>>

PageNext ==
  \/ \E p \in PageVectors : MoveSliders(p)
  \/ setSidebarOpen
  \/ handleSubmit
  \/ \E i \in 1..MaxProse : AiReturnsProse(i)
  \/ AiReturnsFalsy
  \/ AiThrows
  \/ Resume
  \/ handleSubmitResumes

PageSpec == Init /\ [][PageNext]_vars

(***************************************************************************)
(* The baseline statements the user interface shows next to a simulation   *)
(***************************************************************************)
ORIGINAL_BALANCE_SHEET == [
  assets |-> <<
    Line("Cash and Equivalents", 5200000),
    Line("Accounts Receivable", 3400000),
    Line("Inventory", 2100000),
    Line("Prepaid Expenses", 450000),
    Line("Current Assets", 11150000),
    Line("Property, Plant & Equipment", 15800000),
    Line("Intangible Assets", 2200000),
    Line("Goodwill", 1850000),
    Line("Non-Current Assets", 19850000),
    Line("Total Assets", 31000000) >>,
  liabilities |-> <<
    Line("Accounts Payable", 2800000),
    Line("Short-term Debt", 1200000),
    Line("Accrued Expenses", 950000),
    Line("Current Liabilities", 4950000),
    Line("Long-term Debt", 8000000),
    Line("Deferred Tax Liabilities", 650000),
    Line("Non-Current Liabilities", 8650000),
    Line("Total Liabilities", 13600000) >>,
  equity |-> <<
    Line("Common Stock", 5000000),
    Line("Retained Earnings", 10400000),
    Line("Additional Paid-in Capital", 2000000),
    Line("Total Equity", 17400000),
    Line("Total Liabilities & Equity", 31000000) >> ]

ORIGINAL_PNL == <<
  Line("Revenue", 22500000),
  Line("Cost of Goods Sold", -12300000),
  Line("Gross Profit", 10200000),
  Line("Selling, General & Admin", -4200000),
  Line("Research & Development", -800000),
  Line("Depreciation & Amortization", -1700000),
  Line("Total Operating Expenses", -6700000),
  Line("Operating Income (EBIT)", 3500000),
  Line("Interest Expense", -440000),
  Line("Other Income / (Expense)", 120000),
  Line("Earnings Before Tax (EBT)", 3180000),
  Line("Income Tax Expense", -700000),
  Line("Net Income", 2480000) >>

ORIGINAL_CASH_FLOW == <<
  Line("Net Income", 2480000),
  Line("Depreciation & Amortization", 1700000),
  Line("Changes in Working Capital", -80000),
  Line("Cash from Operations", 4100000),
  Line("Capital Expenditures", -1500000),
  Line("Acquisitions", -1000000),
  Line("Cash from Investing", -2500000),
  Line("Debt Repayment", -800000),
  Line("Equity Issuance", 0),
  Line("Dividends Paid", -600000),
  Line("Cash from Financing", -1400000),
  Line("Net Change in Cash", 200000) >>

(***************************************************************************)
(* Properties                                                              *)
(***************************************************************************)
\* the call has run the engine: its numbers and its result are there
Ran == pc # "idle"

\* the amounts of a statement, line by line
Amounts(lines) == [i \in 1..Len(lines) |-> lines[i].amount]

\* the sum of the values of entries from..to of a waterfall
RECURSIVE SumValues(_, _, _)
SumValues(w, from, to) ==
  IF from > to THEN 0 ELSE w[from].value + SumValues(w, from + 1, to)

\* C1: for every Parameter Vector the engine's numbers balance exactly,
\* totalAssets = totalLiabilities + totalEquity, and cash is the residual
\* (totalLiabilities + totalEquity) - (AR + inventory + prepaid + non-current
\* assets).
BalanceSheetBalances ==
  Ran =>
    /\ engine.totalAssets = engine.totalLiabilities + engine.totalEquity
    /\ engine.cash = (engine.totalLiabilities + engine.totalEquity)
                     - (engine.ar + engine.inventory + engine.prepaid
                        + engine.nonCurrentAssets)

\* a run whose working capital and debt all moved, so that the cash residual
\* is not the baseline cash, and which balances
BalanceSheetBalancesSeen ==
  /\ Ran
  /\ engine.ar # B.ar /\ engine.inventory # B.inventory /\ engine.ap # B.ap
  /\ engine.cash < 0
  /\ engine.totalAssets = engine.totalLiabilities + engine.totalEquity

\* C2: in every run netCashChange = cfOps + cfInvesting + cfFinancing, where
\* netCashChange is the simulated cash less the baseline cash of 5,200,000.
CashFlowReconciles ==
  Ran =>
    /\ engine.netCashChange
         = engine.cfOps + engine.cfInvesting + engine.cfFinancing
    /\ engine.netCashChange = engine.cash - 5200000

\* a run that borrows (financing flow moved) and invests more than the
\* baseline, and reconciles
CashFlowReconcilesSeen ==
  /\ Ran
  /\ engine.cfFinancing # -(B.debtRepayment + B.dividends)
  /\ engine.cfInvesting # -(B.totalCapex + B.acquisitions)
  /\ engine.netCashChange # 0
  /\ engine.netCashChange
       = engine.cfOps + engine.cfInvesting + engine.cfFinancing

\* C3: the waterfall closes: the first entry plus the seven middle entries
\* is the last entry.
WaterfallCloses ==
  Ran =>
    LET w == engineResult.waterfallData
    IN  w[1].value + SumValues(w, 2, Len(w) - 1) = w[Len(w)].value

\* what the code produces instead: every waterfall falls 400 short of the
\* simulated net income, the difference between B.netIncome and the net
\* income the tax entry's own baseline implies (3,180,000 - 699,600)
WaterfallGap ==
  Ran =>
    LET w == engineResult.waterfallData
    IN  /\ Len(w) = 9
        /\ w[9].value = engine.netIncome
        /\ w[1].value + SumValues(w, 2, 8) = w[9].value - 400

\* C4: the identity run (every parameter at its DEFAULT_PARAMETERS value)
\* reproduces the baseline amount of every P&L, balance sheet and cash flow
\* line.
IdentityRun ==
  (Ran /\ sliderParameters = DEFAULT_PARAMETERS) =>
    /\ Amounts(engineResult.simulatedProfitAndLoss) = Amounts(ORIGINAL_PNL)
    /\ Amounts(engineResult.simulatedBalanceSheet.assets)
         = Amounts(ORIGINAL_BALANCE_SHEET.assets)
    /\ Amounts(engineResult.simulatedBalanceSheet.liabilities)
         = Amounts(ORIGINAL_BALANCE_SHEET.liabilities)
    /\ Amounts(engineResult.simulatedBalanceSheet.equity)
         = Amounts(ORIGINAL_BALANCE_SHEET.equity)
    /\ Amounts(engineResult.simulatedCashFlow) = Amounts(ORIGINAL_CASH_FLOW)

\* what the identity run produces
IdentityRunActual ==
  (Ran /\ sliderParameters = DEFAULT_PARAMETERS) =>
    /\ Amounts(engineResult.simulatedProfitAndLoss)
         = << 22500000, -12300000, 10200000, -4200000, -800000, -1700000,
              -6700000, 3500000, -440036, 120000, 3179964, -699592, 2480372 >>
    /\ Amounts(engineResult.simulatedBalanceSheet.assets)
         = << 5217632, 3390411, 2089315, 450000, 11147358, 15800000, 2200000,
              1850000, 19850000, 30997358 >>
    /\ Amounts(engineResult.simulatedBalanceSheet.liabilities)
         = << 2796986, 1200000, 950000, 4946986, 8000000, 650000, 8650000,
              13596986 >>
    /\ Amounts(engineResult.simulatedBalanceSheet.equity)
         = << 5000000, 10400372, 2000000, 17400372, 30997358 >>
    /\ Amounts(engineResult.simulatedCashFlow)
         = << 2480372, 1700000, -262740, 3917632, -1500000, -1000000,
              -2500000, -800000, 0, -600000, -1400000, 17632 >>

\* only slider k is away from its default (or none is)
OnlyMoved(k) == Ran /\ sliderParameters = [D EXCEPT ![k] = sliderParameters[k]]

\* the revenue with slider k at v and every other parameter at baseline
RevenueAt(k, v) == Revenue([D EXCEPT ![k] = v])

\* revenue rises strictly with each step of slider k
StepsUp(k) ==
  \A a \in SliderRange[k] :
    (a + 1) \in SliderRange[k] => RevenueAt(k, a) < RevenueAt(k, a + 1)

\* revenue falls strictly with each step of slider k
StepsDown(k) ==
  \A a \in SliderRange[k] :
    (a + 1) \in SliderRange[k] => RevenueAt(k, a) > RevenueAt(k, a + 1)

\* C5: with every other parameter at baseline, revenue is strictly greater at
\* the larger of two integer marketDemand values and strictly smaller at the
\* larger of two integer customerChurn values.  The run's revenue is compared
\* with the revenue at every other value of the slider, and the steps between
\* neighbouring values cover the pairs no run of the model holds.
RevenueMonotone ==
  /\ OnlyMoved("marketDemand") =>
       /\ \A a \in SliderRange.marketDemand :
            /\ a < sliderParameters.marketDemand
                 => RevenueAt("marketDemand", a) < engine.revenue
            /\ a > sliderParameters.marketDemand
                 => RevenueAt("marketDemand", a) > engine.revenue
       /\ StepsUp("marketDemand")
  /\ OnlyMoved("customerChurn") =>
       /\ \A a \in SliderRange.customerChurn :
            /\ a < sliderParameters.customerChurn
                 => RevenueAt("customerChurn", a) > engine.revenue
            /\ a > sliderParameters.customerChurn
                 => RevenueAt("customerChurn", a) < engine.revenue
       /\ StepsDown("customerChurn")

\* a run with only marketDemand raised and more revenue than the baseline
\* run... and, from the same start, the run with only churn raised and less
RevenueMonotoneSeen ==
  \/ /\ OnlyMoved("marketDemand") /\ sliderParameters.marketDemand = 120
     /\ engine.revenue > Revenue(D)
  \/ /\ OnlyMoved("customerChurn") /\ sliderParameters.customerChurn = 50
     /\ engine.revenue < Revenue(D)

\* the run of C6 and C7: discount 15, every other parameter at baseline
DiscountRun == Ran /\ sliderParameters = [D EXCEPT !.discount = 15]

\* C6 as stated: moving discount from 5 to 15 leaves Accounts Payable where
\* the all-baseline run has it.
DiscountLeavesPayables ==
  DiscountRun => engine.ap = computeSimulation(D).ap

\* C6, amended: AP is round(COGS / 365 * apDays), and because 70 % of COGS
\* scales with revenue the discount lowers COGS from 12,300,000 to 11,783,400
\* and with it AP from 2,796,986 to 2,679,513.
DiscountMovesPayables ==
  DiscountRun =>
    /\ engine.ap = DaysOf(engine.cogs, sliderParameters.apDays)
    /\ engine.cogs = 11783400
    /\ engine.ap = 2679513
    /\ Only({ e.cogs = 12300000 /\ e.ap = 2796986
              : e \in {computeSimulation(D)} })

\* the discount run has returned with payables below the baseline run's
DiscountMovesPayablesSeen ==
  /\ DiscountRun /\ pc = "returned"
  /\ engine.ap < B.ap
  /\ engineResult.simulatedBalanceSheet.liabilities[1].amount = engine.ap

\* C7: moving discount from 5 to 15 with every other parameter at baseline
\* lowers revenue by 10 x 0.006 x baseline revenue = 1,350,000, to 21,150,000.
DiscountCutsRevenue ==
  DiscountRun =>
    /\ engine.revenue = 21150000
    /\ Revenue(D) - engine.revenue = 1350000
    /\ 1350000 * 1000 = 10 * 6 * B.revenue
    /\ engineResult.simulatedProfitAndLoss[1].amount = 21150000

\* the discount run is under way and its revenue is below the baseline's
DiscountCutsRevenueSeen ==
  /\ DiscountRun /\ pc = "awaiting"
  /\ engine.revenue < B.revenue
  /\ engineResult.keyMetrics[1].simulated = engine.revenue

\* the three narrative fields of the returned data
NarrativeFields == {"simulationAnalysis", "suggestions", "riskAssessment"}

\* C8: when the commentary call throws or rejects, the action still returns
\* error = null and data # null; data carries the engine's result, and the
\* three narrative fields hold the placeholder texts, the risk placeholder
\* quoting the engine's riskLevel and overallScore.
FailureKeepsNumbers ==
  (pc = "returned" /\ ai.state = "rejected") =>
    /\ ret.error = Null
    /\ ret.data # Null
    /\ warned
    /\ LET data == ret.data[1]
       IN  /\ data.simulationAnalysis = Placeholders(engineResult).analysis
           /\ data.suggestions = Placeholders(engineResult).suggestions
           /\ data.riskAssessment
                = << "Overall risk level: ", engineResult.riskLevel,
                     ". Health score: ", engineResult.overallScore, "/100." >>
           /\ \A f \in DOMAIN engineResult : data[f] = engineResult[f]

\* a call whose commentary failed has returned the numbers of a critical
\* scenario under the placeholder texts
FailureKeepsNumbersSeen ==
  /\ pc = "returned" /\ ai.state = "rejected" /\ warned
  /\ ret.data # Null
  /\ engineResult.riskLevel = "critical"
  /\ ret.data[1].riskAssessment[2] = "critical"
  /\ ret.data[1].overallScore = engineResult.overallScore

\* C9: every call eventually returns, even when the commentary collaborator
\* is unavailable, slow, or never responds.
EventuallyReturns == (pc = "awaiting") ~> (pc = "returned")

\* what the code guarantees: the call returns once the promise has settled
ReturnsOnceSettled ==
  (pc = "awaiting" /\ ai.state # "pending") ~> (pc = "returned")

\* C10: whatever the commentary call does (prose, a falsy value, a failure),
\* every field of the returned data other than the three narrative fields
\* equals that field of runFullSimulation(sliderParameters).
NumbersUntouched ==
  pc = "returned" =>
    /\ ret.data # Null
    /\ DOMAIN ret.data[1] = DOMAIN engineResult \cup NarrativeFields
    /\ \E result \in {runFullSimulation(sliderParameters)} :
         \A f \in DOMAIN result \ NarrativeFields :
           /\ f \in DOMAIN ret.data[1]
           /\ ret.data[1][f] = result[f]

\* a call that merged the collaborator's prose has returned, the numbers of a
\* changed scenario beside it
NumbersUntouchedSeen ==
  /\ pc = "returned" /\ ai.state = "fulfilled" /\ ai.value # Null
  /\ sliderParameters # D
  /\ ret.data[1].simulationAnalysis = Prose(2).simulationAnalysis
  /\ ret.data[1].keyMetrics = engineResult.keyMetrics
  /\ ret.data[1].keyMetrics[4].simulated # B.netIncome

\* C11: for every Engine Numbers input computeHealthScore returns a score with
\* 0 <= score <= 100: the adjustments accumulated from 50 are clamped into
\* that range.
ScoreInRange ==
  scored # Null =>
    /\ scored.out.score \in 0..100
    /\ RawScore(scored.input) \in 0..100
         => scored.out.score = RawScore(scored.input)
    /\ RawScore(scored.input) < 0 => scored.out.score = 0

\* an input whose adjustments sum below 0 was scored 0
ScoreInRangeSeen ==
  /\ scored # Null
  /\ RawScore(scored.input) < -20
  /\ scored.out.score = 0

\* C12: the risk tier is low exactly when score >= 72, medium exactly when
\* 52 <= score < 72, high exactly when 32 <= score < 52 and critical exactly
\* when score < 32.
RiskTierLadder ==
  scored # Null =>
    LET score == scored.out.score
        tier  == scored.out.riskLevel
    IN  /\ tier \in {"low", "medium", "high", "critical"}
        /\ tier = "low" <=> score >= 72
        /\ tier = "medium" <=> (52 <= score /\ score < 72)
        /\ tier = "high" <=> (32 <= score /\ score < 52)
        /\ tier = "critical" <=> score < 32

\* a score of exactly 72 was rated low
RiskTierLadderSeen ==
  /\ scored # Null
  /\ scored.out.score = 72
  /\ scored.out.riskLevel = "low"

\* C13: for every Parameter Vector within the slider ranges the simulated
\* revenue is a non-negative integer.
RevenueNonNegative ==
  Ran => engine.revenue \in Nat

\* C17: each middle waterfall entry carries the revenue delta, or the negative
\* of the increase of its cost over baseline, and is tagged increase exactly
\* when its value is above 0 and decrease otherwise; the first and the last
\* entry are tagged total.  (The tax entry is measured against the baseline
\* tax the code uses, round(3,180,000 * 0.22).)
WaterfallValues ==
  Ran =>
    LET w == engineResult.waterfallData
    IN  /\ Len(w) = 9
        /\ w[2].value = engine.revenue - B.revenue
        /\ w[3].value = -(engine.cogs - B.cogs)
        /\ w[4].value = -(engine.sga - B.sga)
        /\ w[5].value = -(engine.rd - B.rd)
        /\ w[6].value = -(engine.da - B.da)
        /\ w[7].value = -(engine.interestExpense - B.interestExpense)
        /\ w[8].value = -(engine.tax - BaselineTax)
        /\ w[1].type = "total" /\ w[9].type = "total"

WaterfallTags ==
  /\ WaterfallValues
  /\ Ran =>
       \A i \in 2..8 :
         engineResult.waterfallData[i].type
           = IF engineResult.waterfallData[i].value > 0 THEN "increase"
             ELSE "decrease"

\* what the code does: the values are as stated, and an entry of exactly 0 is
\* tagged increase
WaterfallTagsActual ==
  /\ WaterfallValues
  /\ Ran =>
       \A i \in 2..8 :
         engineResult.waterfallData[i].type
           = IF engineResult.waterfallData[i].value >= 0 THEN "increase"
             ELSE "decrease"

\* C18: in the revenue-growth check a revenue more than 15 % below baseline
\* subtracts 10 points, a decline of more than 5 % and at most 15 % subtracts
\* 5, growth above 5 % adds 5 and growth in (0, 5 %] adds 2.
GrowthCheck ==
  Ran =>
    LET g == engine.revenue - B.revenue
    IN  GrowthPoints(engine)
          = IF g * 20 < -3 * B.revenue THEN -10
            ELSE IF g * 20 < -B.revenue THEN -5
            ELSE IF g * 20 > B.revenue THEN 5
            ELSE IF g > 0 THEN 2
            ELSE 0

\* what the code does: the -5 branch is tested first and takes every decline
\* of more than 5 %, so no decline subtracts 10
GrowthCheckActual ==
  Ran =>
    LET g == engine.revenue - B.revenue
    IN  GrowthPoints(engine)
          = IF g * 20 < -B.revenue THEN -5
            ELSE IF g * 20 > B.revenue THEN 5
            ELSE IF g > 0 THEN 2
            ELSE 0

\* C19: cash from operations articulates with the P&L: cfOps = netIncome + da
\* + wcChanges, and the Cash from Operations row of the cash-flow statement is
\* the sum of its Net Income, Depreciation & Amortization and Changes in
\* Working Capital rows.
CashFromOpsArticulates ==
  Ran =>
    LET cf == engineResult.simulatedCashFlow
    IN  /\ engine.cfOps = engine.netIncome + engine.da + engine.wcChanges
        /\ cf[1].item = "Net Income" /\ cf[1].amount = engine.netIncome
        /\ cf[2].item = "Depreciation & Amortization"
        /\ cf[3].item = "Changes in Working Capital"
        /\ cf[4].item = "Cash from Operations"
        /\ cf[4].amount = cf[1].amount + cf[2].amount + cf[3].amount
        /\ cf[1].amount = engineResult.simulatedProfitAndLoss[13].amount
        /\ cf[2].amount = -engineResult.simulatedProfitAndLoss[6].amount

\* a loss-making run with positive working capital changes articulates
CashFromOpsArticulatesSeen ==
  /\ Ran
  /\ engine.netIncome < 0 /\ engine.wcChanges > 0
  /\ engineResult.simulatedCashFlow[4].amount
       = engine.netIncome + engine.da + engine.wcChanges

\* C20: tax is round(EBT x 0.22) when EBT > 0 and 0 when EBT <= 0, and
\* netIncome = EBT - tax; so tax is never negative, netIncome <= EBT, and
\* netIncome = EBT whenever EBT <= 0.
TaxRule ==
  Ran =>
    /\ engine.ebt > 0 => Abs(100 * engine.tax - 22 * engine.ebt) <= 50
    /\ engine.ebt <= 0 => engine.tax = 0 /\ engine.netIncome = engine.ebt
    /\ engine.netIncome = engine.ebt - engine.tax
    /\ engine.tax >= 0
    /\ engine.netIncome <= engine.ebt
    /\ engineResult.simulatedProfitAndLoss[12].amount = -engine.tax

\* a run with a loss before tax: no tax, net income is the loss
TaxRuleSeen ==
  /\ Ran
  /\ engine.ebt < 0 /\ engine.tax = 0 /\ engine.netIncome = engine.ebt

\* the action has just run the engine and waits for the commentary
JustRan == pc = "awaiting" /\ ai.state = "pending"

\* (delta / d) x 100 to one decimal, d the size of the base metric, or 1 when
\* the base metric is exactly 0
PerCentOfBase(delta, base) == pct(delta, IF base = 0 THEN 1 ELSE Abs(base))

\* a row is as C16 states it: both runs from the caller's vector v with only
\* key replaced, baseValue the caller's value, each impact from its own metric
RowAsStated(row, key, v, base) ==
  \E lowR \in {computeSimulation([v EXCEPT ![key] = row.lowValue])},
     highR \in {computeSimulation([v EXCEPT ![key] = row.highValue])} :
    /\ row.baseValue = v[key]
    /\ row.revenueImpact
         = PerCentOfBase(highR.revenue - lowR.revenue, base.revenue)
    /\ row.netIncomeImpact
         = PerCentOfBase(highR.netIncome - lowR.netIncome, base.netIncome)
    /\ row.cashFlowImpact = PerCentOfBase(highR.cfOps - lowR.cfOps, base.cfOps)

RunsIndependent ==
  /\ callerVector = asked
  /\ \A i \in 1..MaxRuns :
       runs[i].stage = "done" => runs[i].result = runs[i].expected

\* the base run and a run of the sweep, on different values, both finished,
\* the base run having taken a step while the other was between its first and
\* its last part
RunsIndependentSeen ==
  /\ runs[1].stage = "done" /\ runs[1].beside
  /\ runs[2].stage = "done"
  /\ runs[1].input # runs[2].input
  /\ runs[1].result # runs[2].result
  /\ runs[1].result = computeSimulation(asked)

\* C14: two invocations of the engine and of the sweep with identical
\* Parameter Vectors return identical Engine Numbers and identical revenue,
\* net-income and cash-flow impacts, whatever ran before or between them
SameVectorSameNumbers ==
  \A i, j \in DOMAIN calls :
    calls[i].asked = calls[j].asked =>
      /\ calls[i].engine = calls[j].engine
      /\ calls[i].impacts = calls[j].impacts

\* one vector was run, then another with other results, then the first again
SameVectorSameNumbersSeen ==
  /\ Len(calls) = 3
  /\ calls[1].asked = calls[3].asked
  /\ calls[2].asked # calls[1].asked
  /\ calls[2].engine # calls[1].engine
  /\ calls[2].impacts # calls[1].impacts
  /\ calls[3].engine = calls[1].engine
  /\ calls[3].impacts = calls[1].impacts

\* the effective borrowing rate in 1/100000: the baseline 4.783% plus the
\* deviations of the policy rate and of the credit spread, floored at 0
RateAsStated(p) ==
  Max(0, 4783 + (p.interestRate - 55) * 100 + (p.creditSpread - 20) * 100)

\* round(|bondYieldSpread - 0.76| x 50,000)
PenaltyAsStated(p) ==
  round(Q(BProd(<<Abs(p.bondYieldSpread - 76), 50000>>), <<100>>))

\* C21: interest expense is round(9,200,000 x rate), the rate being the
\* baseline rate plus the interest-rate and credit-spread deviations floored
\* at 0, plus round(|bondYieldSpread - 0.76| x 50,000) only when the spread is
\* below its baseline; so it is never negative and a spread at or above
\* baseline adds nothing.
InterestRule ==
  Ran =>
    LET p    == sliderParameters
        onDebt == round(Q(BProd(<<9200000, RateAsStated(p)>>), <<100000>>))
    IN  /\ p.bondYieldSpread < 76
             => engine.interestExpense = onDebt + PenaltyAsStated(p)
        /\ p.bondYieldSpread >= 76 => engine.interestExpense = onDebt
        /\ engine.interestExpense >= 0
        /\ engineResult.simulatedProfitAndLoss[9].amount
             = -engine.interestExpense

\* a run whose rate deviations exceed the baseline rate: no interest at all
InterestRuleSeen ==
  /\ Ran
  /\ 4783 + (sliderParameters.interestRate - 55) * 100
          + (sliderParameters.creditSpread - 20) * 100 < 0
  /\ engine.interestExpense = 0

\* C22: long-term debt is 8,000,000 plus half of max(0, capexGrowth -
\* 500,000), so never below baseline; the new borrowings are longTermDebt -
\* 8,000,000 >= 0 and cfFinancing = -800,000 + newBorrowings - 600,000, so
\* cfFinancing >= -1,400,000.
DebtRule ==
  Ran =>
    LET excess == Max(0, sliderParameters.capexGrowth - 500000)
    IN  /\ 2 * engine.longTermDebt - (16000000 + excess) \in {0, 1}
        /\ engine.longTermDebt >= 8000000
        /\ engine.cfFinancing = -800000 + (engine.longTermDebt - 8000000) - 600000
        /\ engine.cfFinancing >= -1400000

\* growth capex was cut below baseline: the debt stays at baseline
DebtRuleSeen ==
  /\ Ran
  /\ sliderParameters.capexGrowth < 500000
  /\ engine.longTermDebt = 8000000
  /\ engine.cfFinancing = -1400000

\* C23: D&A is round(depreciation + 0.10 x max(0, capexMaintenance +
\* capexGrowth - 1,500,000)), so capex at or below baseline leaves D&A equal
\* to the depreciation parameter; PP&E is 16,000,000 + total capex - D&A.
DepreciationRule ==
  Ran =>
    LET p        == sliderParameters
        newCapex == p.capexMaintenance + p.capexGrowth
        excess   == Max(0, newCapex - 1500000)
    IN  /\ 10 * engine.da - (10 * p.depreciation + excess) \in -4..5
        /\ newCapex <= 1500000 => engine.da = p.depreciation
        /\ engine.ppe = 16000000 + newCapex - engine.da

\* capex was cut below baseline: D&A is the depreciation parameter
DepreciationRuleSeen ==
  /\ Ran
  /\ sliderParameters.capexMaintenance + sliderParameters.capexGrowth < 1500000
  /\ engine.da = sliderParameters.depreciation
  /\ engine.ppe = 16000000 + sliderParameters.capexMaintenance
                    + sliderParameters.capexGrowth - engine.da

\* the three mix parameters multiplied by k
ScaledMix(p, k) ==
  [p EXCEPT !.cogsMaterials = k * @, !.cogsLabor = k * @, !.cogsOverhead = k * @]

\* the scaled vector is one the sliders offer (0 to 100 each)
MixInRange(p) ==
  /\ p.cogsMaterials <= 100 /\ p.cogsLabor <= 100 /\ p.cogsOverhead <= 100

MixSum(p) == p.cogsMaterials + p.cogsLabor + p.cogsOverhead

\* C24: the COGS mix enters only through normalized weights: multiplying
\* cogsMaterials, cogsLabor and cogsOverhead by the same positive factor leaves
\* every Engine Numbers field unchanged, and a mix that sums to zero gives the
\* Engine Numbers of the baseline split (materials 0.4, labor 0.3).
MixNormalized ==
  JustRan =>
    LET p == sliderParameters
    IN  /\ \A k \in {2, 3} :
             MixSum(p) > 0 /\ MixInRange(ScaledMix(p, k))
               => computeSimulation(ScaledMix(p, k)) = engine
        /\ MixSum(p) = 0
             => computeSimulation([p EXCEPT !.cogsMaterials = 40,
                                            !.cogsLabor = 30,
                                            !.cogsOverhead = 30]) = engine

\* a run with a mix other than the baseline's and with commodity prices and
\* headcount moved, whose numbers the doubled mix reproduces
MixNormalizedSeen ==
  /\ JustRan
  /\ sliderParameters.cogsMaterials = 20 /\ sliderParameters.cogsLabor = 50
  /\ sliderParameters.commodityIndex = 120
  /\ engine.cogs # computeSimulation([sliderParameters EXCEPT
                                        !.cogsMaterials = 40]).cogs
  /\ computeSimulation(ScaledMix(sliderParameters, 2)) = engine

\* C25: for every Parameter Vector prepaid, intangibles, goodwill,
\* shortTermDebt, accruedExpenses, deferredTax, commonStock and apic of the
\* Engine Numbers equal their baseline values, and otherIncome is 120,000.
BaselineLinesKept ==
  Ran =>
    LET sheet == ORIGINAL_BALANCE_SHEET
    IN  /\ engine.prepaid = sheet.assets[4].amount
        /\ engine.intangibles = sheet.assets[7].amount
        /\ engine.goodwill = sheet.assets[8].amount
        /\ engine.shortTermDebt = sheet.liabilities[2].amount
        /\ engine.accruedExpenses = sheet.liabilities[3].amount
        /\ engine.deferredTax = sheet.liabilities[6].amount
        /\ engine.commonStock = sheet.equity[1].amount
        /\ engine.apic = sheet.equity[3].amount
        /\ engine.otherIncome = 120000
        /\ engine.ebt = engine.ebit - engine.interestExpense + 120000

\* a loss-making run in which revenue, the total assets and the retained
\* earnings left their baseline values while the fixed lines stayed
BaselineLinesKeptSeen ==
  /\ Ran
  /\ engine.revenue # B.revenue /\ engine.netIncome < 0
  /\ engine.totalAssets # ORIGINAL_BALANCE_SHEET.assets[10].amount
  /\ engine.retainedEarnings # B.retainedEarnings
  /\ engine.prepaid = B.prepaid /\ engine.otherIncome = B.otherIncome
  /\ engine.commonStock = B.commonStock

\* growth capex above its baseline 500,000: one step, a few and the maximum
GrowthRaises == {600000, 2000000, 10000000}

\* the run with only capexGrowth raised to g
GrowthRun(g) == computeSimulation([sliderParameters EXCEPT !.capexGrowth = g])

\* C26 as stated: raising capexGrowth above baseline increases longTermDebt
\* and the debt/equity ratio but leaves interestExpense identical to the run
\* with baseline capexGrowth.
InterestOnBaselineDebtStrict ==
  JustRan /\ sliderParameters.capexGrowth = D.capexGrowth =>
    \A g \in GrowthRaises :
      \A raised \in {GrowthRun(g)} :
        /\ raised.interestExpense = engine.interestExpense
        /\ raised.longTermDebt > engine.longTermDebt
        /\ raised.debtToEquity > engine.debtToEquity

\* C26 as amended: raising capexGrowth above baseline increases longTermDebt,
\* never lowers the debt/equity ratio as reported to two decimals while total
\* equity is positive, and leaves interestExpense identical to the run with
\* baseline capexGrowth.
InterestOnBaselineDebt ==
  JustRan /\ sliderParameters.capexGrowth = D.capexGrowth =>
    \A g \in GrowthRaises :
      \A raised \in {GrowthRun(g)} :
        /\ raised.interestExpense = engine.interestExpense
        /\ raised.longTermDebt > engine.longTermDebt
        /\ raised.totalEquity > 0
             => raised.debtToEquity >= engine.debtToEquity

\* the all-baseline run and the run one step above it report the same
\* debt/equity ratio, 0.53, on more debt and the same interest
InterestOnBaselineDebtSeen ==
  /\ JustRan
  /\ sliderParameters = D
  /\ GrowthRun(600000).longTermDebt = 8050000
  /\ GrowthRun(600000).debtToEquity = 53
  /\ engine.debtToEquity = 53
  /\ GrowthRun(600000).interestExpense = engine.interestExpense
  /\ GrowthRun(10000000).debtToEquity > engine.debtToEquity

\* other values of the two working-capital day counts: the ends of the
\* sliders and one day off the defaults 55 and 62
DayValues == [arDays |-> {0, 54, 120}, inventoryDays |-> {0, 63, 180}]

\* the Engine Numbers that may move with each day count
MayDiffer ==
  [ arDays |-> {"ar", "cash", "netCashChange", "cfOps", "wcChanges",
                "cashConversionCycle"},
    inventoryDays |-> {"inventory", "cash", "netCashChange", "cfOps",
                       "wcChanges", "cashConversionCycle"} ]

\* the run with only the day count key set to v
DaysRun(key, v) == computeSimulation([sliderParameters EXCEPT ![key] = v])

\* C27: changing only arDays or only inventoryDays shifts value between the
\* working-capital asset and cash and nothing else: only ar (resp. inventory),
\* cash, netCashChange, cfOps, wcChanges and cashConversionCycle may differ
\* from the run with the original value; every other Engine Number (P&L,
\* liabilities, equity, currentAssets, totalAssets, the other ratios) is
\* identical.
DaysShiftCashOnly ==
  JustRan =>
    \A key \in DOMAIN DayValues :
      \A v \in DayValues[key] :
        \A other \in {DaysRun(key, v)} :
          \A f \in DOMAIN engine \ MayDiffer[key] : other[f] = engine[f]

\* a run whose receivables at 120 days are higher and whose cash is lower by
\* the same amount, the totals staying
DaysShiftCashOnlySeen ==
  /\ JustRan
  /\ sliderParameters.arDays = 55
  /\ engine.revenue # B.revenue
  /\ \E other \in {DaysRun("arDays", 120)} :
       /\ other.ar > engine.ar
       /\ other.ar - engine.ar = engine.cash - other.cash
       /\ other.cfOps < engine.cfOps
       /\ other.totalAssets = engine.totalAssets
       /\ other.currentRatio = engine.currentRatio

\* the parameter names listed in the summary; none when it reads 'All
\* parameters at baseline (no changes).'
Listed(summary) == { summary[i][1] : i \in DOMAIN summary }

PageStates ==
  /\ home.isLoading => home.simulationResult = Null /\ home.error = Null
  /\ pc # "idle" => home.isLoading
  /\ home.simulationResult # Null =>
       /\ home.simulationParams # Null
       /\ home.simulationResult[1].simulationParameters
            = changedParams(home.simulationParams)

\* what every step of the page does: a submit sets (null, true, null), and
\* the return of the server action ends loading with exactly one of result
\* and error, storing the vector that was submitted
PageSteps ==
  /\ pc = "idle" /\ pc' # "idle" =>
       /\ home'.simulationResult = Null /\ home'.isLoading /\ home'.error = Null
       /\ sliderParameters' = controls
  /\ pc = "returned" /\ pc' = "idle" =>
       /\ ~home'.isLoading
       /\ (home'.simulationResult # Null) # (home'.error # Null)
       /\ home'.simulationParams = sliderParameters
  /\ home.isLoading /\ pc' = pc => home'.isLoading

\* C29: submitting sets (result = null, loading = true, error = null); when
\* the server action returns, loading becomes false and exactly one of result
\* and error is non-null; loading implies result = null and error = null;
\* whenever result is non-null the stored simulationParams is the vector
\* submitted for the run that produced it; while loading the submit button is
\* disabled, so no second run is started.
PageStateRule == []PageStates /\ [][PageSteps]_vars

\* a result is on screen for a vector other than the defaults, and the sliders
\* have been moved since it was submitted
PageStateRuleSeen ==
  /\ ~home.isLoading /\ home.error = Null
  /\ home.simulationResult # Null
  /\ home.simulationParams # Null /\ home.simulationParams # D
  /\ home.sidebarOpen /\ controls # home.simulationParams
  /\ home.simulationResult[1].simulationParameters
       = changedParams(home.simulationParams)

\* C30: for every caller Parameter Vector the sensitivity rows of
\* commodityIndex, interestRate and inflationRate have revenueImpact = 0,
\* revenue not depending on these parameters; only the marketDemand and
\* productionCapacity rows can have a revenueImpact other than 0.
RevenueImpactOnlyFromDemand ==
  JustRan =>
    \A n \in DOMAIN engineResult.sensitivityData :
      SensitivityTests[n].key \in {"commodityIndex", "interestRate",
                                   "inflationRate"}
        => /\ engineResult.sensitivityData[n].parameter
                = SensitivityTests[n].parameter
           /\ engineResult.sensitivityData[n].revenueImpact = 0

\* a run whose demand row moves revenue while its commodity, interest and
\* inflation rows move net income only
RevenueImpactOnlyFromDemandSeen ==
  /\ JustRan
  /\ sliderParameters # D
  /\ engineResult.sensitivityData[1].revenueImpact > 0
  /\ \A n \in 3..5 :
       /\ engineResult.sensitivityData[n].revenueImpact = 0
       /\ engineResult.sensitivityData[n].netIncomeImpact # 0
====
